---- MODULE Spec2Model ----
(***************************************************************************)
(* Model of the go-timeline generator: style resolution (three layers of   *)
(* defaults and overrides) and the GenerateSVG pipeline (positions, axis   *)
(* walk, axis segments, per-entry placement).                              *)
(*                                                                         *)
(* Conventions                                                             *)
(*  - a Go pointer / optional JSON field is a tuple: <<>> is nil, <<v>> is *)
(*    a pointer to v;                                                      *)
(*  - float64 values are integers; every sample value that the code halves *)
(*    is even, so x/2.0 is exact as x \div 2;                              *)
(*  - angles are multiples of 90 degrees, where cos and sin are 0, 1, -1;  *)
(*  - Go slices are sequences, read with the code's 0-based index via At.  *)
(***************************************************************************)
EXTENDS Integers, Sequences, FiniteSets, TLC

VARIABLES
    template,            \* Template, as parsed from template.json
    dataJSON,            \* the entries of data.json, as JSON objects
    entries,             \* []TimelineEntry after json.Unmarshal
    pc,                  \* position in the run
    layoutConfig,        \* LayoutConfig of GenerateSVG
    timelineData,        \* TimelinePositionData of GenerateSVG
    i,                   \* loop index of the running phase (0-based)
    current,             \* (currentX, currentY) of the axis walk
    entryAxisPoints,     \* []AxisPoint, one per entry
    segmentStartPoints,  \* []AxisPoint, start of the segment leading to entry i
    segmentEndPoints,    \* []AxisPoint, end of the segment leading to entry i
    initialSeg,          \* geometry of the initial segment (before the first entry)
    svgSegments,         \* axis <line> elements written by phase 2
    placements,          \* per entry: what drawTimelineEntry decided
    result,              \* return value of GenerateSVG
    svgBody,             \* svgBody of GenerateSVG: the elements written so far
    timelineBounds,      \* timelineBounds of GenerateSVG
    files,               \* the local image paths that os.ReadFile can read
    call,                \* a direct call of a helper: its name, arguments, result
    mainRun,             \* main: its inputs, its position and what it has done
    history              \* the GenerateSVG calls that have returned, in order

vars == <<template, dataJSON, entries, pc, layoutConfig, timelineData, i,
          current, entryAxisPoints, segmentStartPoints, segmentEndPoints,
          initialSeg, svgSegments, placements, result,
          svgBody, timelineBounds, files, call, mainRun, history>>

(***************************************************************************)
(* Bounds of the model.                                                    *)
(***************************************************************************)
MaxEntries == 3
MaxOverrideFields == 2
MaxCalls == 3
MaxParams == 2
MaxTokens == 4
MaxRuns == 3

(***************************************************************************)
(* Pointers and slices.                                                    *)
(***************************************************************************)
Nil == <<>>
Ptr(v) == <<v>>
At(s, k) == s[k + 1]
Abs(x) == IF x < 0 THEN -x ELSE x
Min(a, b) == IF a < b THEN a ELSE b
Max(a, b) == IF a > b THEN a ELSE b

\* math.Sqrt on the integers: the root, rounded down where it is not whole
RECURSIVE SqrtBetween(_, _, _)
SqrtBetween(n, lo, hi) ==
    IF lo >= hi THEN lo
    ELSE LET mid == (lo + hi + 1) \div 2
         IN IF mid * mid <= n THEN SqrtBetween(n, mid, hi)
            ELSE SqrtBetween(n, lo, mid - 1)

Sqrt(n) == SqrtBetween(n, 0, n)

(***************************************************************************)
(* Text.  A Go string whose characters the code looks at is a sequence of  *)
(* one-character strings; Join is the string with these characters.        *)
(***************************************************************************)
RECURSIVE Join(_)
Join(rs) == IF rs = <<>> THEN "" ELSE Head(rs) \o Join(Tail(rs))

IsSpace(c) == c \in {" ", "\t", "\n", "\r"}

Digits == <<"0", "1", "2", "3", "4", "5", "6", "7", "8", "9">>
IsDigit(c) == \E d \in 1..10 : Digits[d] = c
DigitValue(c) == (CHOOSE d \in 1..10 : Digits[d] = c) - 1

UpperCase == <<"A", "B", "C", "D", "E", "F", "G", "H", "I", "J", "K", "L", "M",
               "N", "O", "P", "Q", "R", "S", "T", "U", "V", "W", "X", "Y", "Z">>
LowerCase == <<"a", "b", "c", "d", "e", "f", "g", "h", "i", "j", "k", "l", "m",
               "n", "o", "p", "q", "r", "s", "t", "u", "v", "w", "x", "y", "z">>

\* strings.ToLower
ToLower(rs) ==
    [k \in 1..Len(rs) |->
        IF \E u \in 1..Len(UpperCase) : UpperCase[u] = rs[k]
        THEN LowerCase[CHOOSE u \in 1..Len(UpperCase) : UpperCase[u] = rs[k]]
        ELSE rs[k]]

\* strings.TrimSpace
RECURSIVE TrimLeft(_)
TrimLeft(rs) ==
    IF rs # <<>> /\ IsSpace(Head(rs)) THEN TrimLeft(Tail(rs)) ELSE rs

RECURSIVE TrimRight(_)
TrimRight(rs) ==
    IF rs # <<>> /\ IsSpace(rs[Len(rs)]) THEN TrimRight(SubSeq(rs, 1, Len(rs) - 1)) ELSE rs

TrimSpace(rs) == TrimRight(TrimLeft(rs))

\* strings.Split(s, sep) for a one-character separator: the parts between
\* the separators, empty parts included
RECURSIVE SplitFrom(_, _, _, _)
SplitFrom(rs, sep, k, part) ==
    IF k > Len(rs) THEN <<part>>
    ELSE IF rs[k] = sep THEN <<part>> \o SplitFrom(rs, sep, k + 1, <<>>)
    ELSE SplitFrom(rs, sep, k + 1, Append(part, rs[k]))

Split(rs, sep) == SplitFrom(rs, sep, 1, <<>>)

\* strings.SplitN(s, sep, 2): split at the first separator only
SplitN2(rs, sep) ==
    IF \E k \in 1..Len(rs) : rs[k] = sep
    THEN LET k == CHOOSE j \in 1..Len(rs) : rs[j] = sep /\ \A h \in 1..(j - 1) : rs[h] # sep
         IN <<SubSeq(rs, 1, k - 1), SubSeq(rs, k + 1, Len(rs))>>
    ELSE <<rs>>

\* strings.Fields: the maximal runs of non-space characters
RECURSIVE FieldsFrom(_, _, _)
FieldsFrom(rs, k, part) ==
    IF k > Len(rs) THEN (IF part = <<>> THEN <<>> ELSE <<part>>)
    ELSE IF IsSpace(rs[k])
         THEN (IF part = <<>> THEN <<>> ELSE <<part>>) \o FieldsFrom(rs, k + 1, <<>>)
         ELSE FieldsFrom(rs, k + 1, Append(part, rs[k]))

Fields(rs) == FieldsFrom(rs, 1, <<>>)

\* strconv.ParseFloat on the texts of the model: an optional sign and
\* decimal digits are a number, every other text is a syntax error
RECURSIVE DecimalValue(_, _)
DecimalValue(rs, acc) ==
    IF rs = <<>> THEN acc ELSE DecimalValue(Tail(rs), 10 * acc + DigitValue(Head(rs)))

ParseFloat(rs) ==
    LET signed == rs # <<>> /\ Head(rs) \in {"+", "-"}
        digits == IF signed THEN Tail(rs) ELSE rs
    IN IF digits # <<>> /\ \A k \in 1..Len(digits) : IsDigit(digits[k])
       THEN [val |-> IF signed /\ Head(rs) = "-" THEN -DecimalValue(digits, 0)
                     ELSE DecimalValue(digits, 0),
             err |-> FALSE]
       ELSE [val |-> 0, err |-> TRUE]

\* the characters of the strings of the model that the code looks into:
\* shape strings, padding strings, image references and their prefixes
Texts ==
    {<<>>,
     <<"o", "v">>,
     <<"8">>,
     <<"1", "0">>,
     <<"1", "0", " ", "2", "0">>,
     <<"5", " ", "1", "0", " ", "1", "5">>,
     <<"5", " ", "1", "0", " ", "1", "5", " ", "2", "0">>,
     <<"a", "b", "c">>,
     <<"n", "o", "n", "e">>,
     <<"c", "i", "r", "c", "l", "e">>,
     <<"c", "i", "r", "c", "l", "e", ";", "r", "=", "1", "0">>,
     <<"c", "i", "r", "c", "l", "e", ";", "r", "=", "a", "u", "t", "o">>,
     <<"c", "i", "r", "c", "l", "e", ";", "r", "=", "x">>,
     <<"c", "i", "r", "c", "l", "e", ";", "r">>,
     <<"c", "i", "r", "c", "l", "e", ";", "r", "=", "1", "0", ";", "x">>,
     <<"C", "i", "r", "c", "l", "e", ";", "r", "=", "1", "0">>,
     <<"c", "i", "r", "c", "l", "e", ";", "r", "=", "0">>,
     <<"c", "i", "r", "c", "l", "e", ";", "r", "=", "-", "5">>,
     <<"r", "e", "c", "t", "a", "n", "g", "l", "e", ";", "w", "=", "0", ";", "h", "=", "2", "0">>,
     <<"r", "e", "c", "t", "a", "n", "g", "l", "e", ";", "w", "=", "4", "0", ";", "h", "=", "-", "2">>,
     <<"r", "e", "c", "t", "a", "n", "g", "l", "e", ";", "w", "=", "5">>,
     <<"r", "e", "c", "t", "a", "n", "g", "l", "e", ";", "w", "=", "4", "0", ";", "h", "=", "2", "0">>,
     <<"i", "m", "g", "1", ".", "p", "n", "g">>,
     <<"h", "t", "t", "p", "s", ":", "/", "/", "h", "/", "a", ".", "p", "n", "g">>,
     <<"h", "t", "t", "p", ":", "/", "/">>,
     <<"h", "t", "t", "p", "s", ":", "/", "/">>,
     <<"d", "a", "t", "a", ":">>}

Runes(s) == CHOOSE rs \in Texts : Join(rs) = s

\* strings.HasPrefix
HasPrefix(rs, prefix) ==
    Len(rs) >= Len(prefix) /\ SubSeq(rs, 1, Len(prefix)) = prefix

(***************************************************************************)
(* Program constants.                                                      *)
(***************************************************************************)
defaultFontSize == 12
defaultFont == "Arial, sans-serif"
imagePlaceholderHeight == 50
foreignObjectHeightEstimate == 100

(***************************************************************************)
(* Helpers to get a value from a pointer or a default.                     *)
(***************************************************************************)
getString_emptyIsUnset(ptr, def) == IF ptr # Nil /\ ptr[1] # "" THEN ptr[1] ELSE def
getString(ptr, def) == IF ptr # Nil THEN ptr[1] ELSE def
getInt(ptr, def) == IF ptr # Nil THEN ptr[1] ELSE def
getFloat64(ptr, def) == IF ptr # Nil THEN ptr[1] ELSE def
getBool(ptr, def) == IF ptr # Nil THEN ptr[1] ELSE def

(***************************************************************************)
(* Effective styles.                                                       *)
(***************************************************************************)
getEffectiveJunctionMarkerStyle(defaults, override) ==
    IF override = Nil THEN defaults
    ELSE [Shape |-> getString(override[1].Shape, defaults.Shape),
          Size  |-> getFloat64(override[1].Size, defaults.Size),
          Color |-> IF override[1].Color # Nil THEN override[1].Color
                    ELSE defaults.Color]

getEffectiveTitleLineStyle(defaults, override) ==
    IF override = Nil THEN defaults
    ELSE LET o == override[1]
             width  == getFloat64(o.Width, defaults.Width)
             length == getFloat64(o.Length, defaults.Length)
             visible0 == getBool(o.Visible, defaults.Visible)
             visible == IF o.Visible = Nil
                        THEN IF width > 0 /\ length > 0 THEN TRUE
                             ELSE IF defaults.Visible THEN TRUE
                             ELSE FALSE
                        ELSE visible0
         IN [Visible |-> visible,
             Color   |-> getString(o.Color, defaults.Color),
             Width   |-> width,
             Length  |-> length,
             Margin  |-> getFloat64(o.Margin, defaults.Margin)]

getEffectiveDotStyle(defaults, override) ==
    IF override = Nil THEN defaults
    ELSE LET o == override[1]
         IN [Size        |-> getInt(o.Size, defaults.Size),
             Color       |-> getString(o.Color, defaults.Color),
             Shape       |-> getString(o.Shape, defaults.Shape),
             Visible     |-> getBool(o.Visible, TRUE),
             OffsetMain  |-> getInt(o.OffsetMain, defaults.OffsetMain),
             OffsetCross |-> getInt(o.OffsetCross, defaults.OffsetCross),
             StopAtDot   |-> getBool(o.StopAtDot, TRUE)]

getEffectiveConnectorStyle_unsetIsFalse(defaults, override) ==
    IF override = Nil THEN defaults
    ELSE LET o == override[1]
             defaultDrawToPeriod ==
                 IF defaults.DrawToPeriod # Nil THEN defaults.DrawToPeriod[1] ELSE FALSE
             defaultDrawToComment ==
                 IF defaults.DrawToComment # Nil THEN defaults.DrawToComment[1] ELSE FALSE
         IN [DrawToPeriod  |-> Ptr(getBool(o.DrawToPeriod, defaultDrawToPeriod)),
             DrawToComment |-> Ptr(getBool(o.DrawToComment, defaultDrawToComment)),
             Width         |-> getInt(o.Width, defaults.Width),
             Color         |-> getString(o.Color, defaults.Color),
             LineType      |-> getString(o.LineType, defaults.LineType),
             Side          |-> defaults.Side,
             Dot           |-> getEffectiveDotStyle(defaults.Dot, o.Dot)]

getEffectiveConnectorStyle(defaults, override) ==
    IF override = Nil THEN defaults
    ELSE LET o == override[1]
             defaultDrawToPeriod ==
                 IF defaults.DrawToPeriod # Nil THEN defaults.DrawToPeriod[1] ELSE TRUE
             defaultDrawToComment ==
                 IF defaults.DrawToComment # Nil THEN defaults.DrawToComment[1] ELSE TRUE
         IN [DrawToPeriod  |-> Ptr(getBool(o.DrawToPeriod, defaultDrawToPeriod)),
             DrawToComment |-> Ptr(getBool(o.DrawToComment, defaultDrawToComment)),
             Width         |-> getInt(o.Width, defaults.Width),
             Color         |-> getString(o.Color, defaults.Color),
             LineType      |-> getString(o.LineType, defaults.LineType),
             Side          |-> defaults.Side,
             Dot           |-> getEffectiveDotStyle(defaults.Dot, o.Dot)]

getEffectiveFontStyle_noGlobal(global, defaults, override) ==
    LET base == [FontFamily |-> IF defaults.FontFamily = "" THEN defaultFont ELSE defaults.FontFamily,
                 FontSize   |-> IF defaults.FontSize = 0 THEN defaultFontSize ELSE defaults.FontSize,
                 FontWeight |-> IF defaults.FontWeight = "" THEN "normal" ELSE defaults.FontWeight,
                 FontStyle  |-> IF defaults.FontStyle = "" THEN "normal" ELSE defaults.FontStyle]
        effective ==
            IF override # Nil
            THEN [FontFamily |-> getString(override[1].FontFamily, base.FontFamily),
                  FontSize   |-> getInt(override[1].FontSize, base.FontSize),
                  FontWeight |-> getString(override[1].FontWeight, base.FontWeight),
                  FontStyle  |-> getString(override[1].FontStyle, base.FontStyle)]
            ELSE base
    IN [effective EXCEPT !.FontFamily = IF @ = "" THEN "sans-serif" ELSE @]

getEffectiveFontStyle(global, defaults, override) ==
    LET withGlobal ==
            IF global # Nil
            THEN [FontFamily |-> IF defaults.FontFamily = "" THEN global[1].FontFamily ELSE defaults.FontFamily,
                  FontSize   |-> IF defaults.FontSize = 0 THEN global[1].FontSize ELSE defaults.FontSize,
                  FontWeight |-> IF defaults.FontWeight = "" THEN global[1].FontWeight ELSE defaults.FontWeight,
                  FontStyle  |-> IF defaults.FontStyle = "" THEN global[1].FontStyle ELSE defaults.FontStyle]
            ELSE defaults
        base == [FontFamily |-> IF withGlobal.FontFamily = "" THEN defaultFont ELSE withGlobal.FontFamily,
                 FontSize   |-> IF withGlobal.FontSize = 0 THEN defaultFontSize ELSE withGlobal.FontSize,
                 FontWeight |-> IF withGlobal.FontWeight = "" THEN "normal" ELSE withGlobal.FontWeight,
                 FontStyle  |-> IF withGlobal.FontStyle = "" THEN "normal" ELSE withGlobal.FontStyle]
        effective ==
            IF override # Nil
            THEN [FontFamily |-> getString(override[1].FontFamily, base.FontFamily),
                  FontSize   |-> getInt(override[1].FontSize, base.FontSize),
                  FontWeight |-> getString(override[1].FontWeight, base.FontWeight),
                  FontStyle  |-> getString(override[1].FontStyle, base.FontStyle)]
            ELSE base
    IN [effective EXCEPT !.FontFamily = IF @ = "" THEN "sans-serif" ELSE @]

getEffectiveCommentTextStyle(globalFont, defaults, override) ==
    LET bodyFontOverride  == IF override # Nil THEN override[1].Font ELSE Nil
        titleFontOverride == IF override # Nil THEN override[1].TitleFont ELSE Nil
        titleLineOverride == IF override # Nil THEN override[1].TitleLine ELSE Nil
        blockWidth0 == IF override # Nil THEN override[1].BlockWidth ELSE defaults.BlockWidth
        scalars ==
            IF override # Nil
            THEN LET o == override[1]
                 IN [Position        |-> getString(o.Position, defaults.Position),
                     MainAxisOffset  |-> getFloat64(o.MainAxisOffset, defaults.MainAxisOffset),
                     CrossAxisOffset |-> getFloat64(o.CrossAxisOffset, defaults.CrossAxisOffset),
                     TitleColor      |-> getString(o.TitleColor, defaults.TitleColor),
                     Shape           |-> getString(o.Shape, defaults.Shape),
                     FillColor       |-> getString(o.FillColor, defaults.FillColor),
                     TextColor       |-> getString(o.TextColor, defaults.TextColor),
                     Padding         |-> getString(o.Padding, defaults.Padding),
                     BorderColor     |-> getString(o.BorderColor, defaults.BorderColor),
                     BorderWidth     |-> getInt(o.BorderWidth, defaults.BorderWidth),
                     BorderStyle     |-> getString(o.BorderStyle, defaults.BorderStyle),
                     TextAlign       |-> getString(o.TextAlign, defaults.TextAlign)]
            ELSE [Position        |-> defaults.Position,
                  MainAxisOffset  |-> defaults.MainAxisOffset,
                  CrossAxisOffset |-> defaults.CrossAxisOffset,
                  TitleColor      |-> defaults.TitleColor,
                  Shape           |-> defaults.Shape,
                  FillColor       |-> defaults.FillColor,
                  TextColor       |-> defaults.TextColor,
                  Padding         |-> defaults.Padding,
                  BorderColor     |-> defaults.BorderColor,
                  BorderWidth     |-> defaults.BorderWidth,
                  BorderStyle     |-> defaults.BorderStyle,
                  TextAlign       |-> defaults.TextAlign]
    IN [Position        |-> scalars.Position,
        MainAxisOffset  |-> scalars.MainAxisOffset,
        CrossAxisOffset |-> scalars.CrossAxisOffset,
        Font            |-> getEffectiveFontStyle(globalFont, defaults.Font, bodyFontOverride),
        TitleFont       |-> getEffectiveFontStyle(globalFont, defaults.TitleFont, titleFontOverride),
        TitleLine       |-> getEffectiveTitleLineStyle(defaults.TitleLine, titleLineOverride),
        TitleColor      |-> scalars.TitleColor,
        Shape           |-> scalars.Shape,
        FillColor       |-> scalars.FillColor,
        TextColor       |-> scalars.TextColor,
        Padding         |-> scalars.Padding,
        BlockWidth      |-> IF blockWidth0 = Nil THEN defaults.BlockWidth ELSE blockWidth0,
        BorderColor     |-> scalars.BorderColor,
        BorderWidth     |-> scalars.BorderWidth,
        BorderStyle     |-> scalars.BorderStyle,
        TextAlign       |-> scalars.TextAlign]

getEffectiveYearTextStyle(globalFont, defaults, override) ==
    LET fontOverride == IF override # Nil THEN override[1].Font ELSE Nil
        font == getEffectiveFontStyle(globalFont, defaults.Font, fontOverride)
    IN IF override # Nil
       THEN LET o == override[1]
            IN [Position        |-> getString(o.Position, defaults.Position),
                MainAxisOffset  |-> getFloat64(o.MainAxisOffset, defaults.MainAxisOffset),
                CrossAxisOffset |-> getFloat64(o.CrossAxisOffset, defaults.CrossAxisOffset),
                TextColor       |-> getString(o.TextColor, defaults.TextColor),
                Font            |-> font,
                Shape           |-> getString(o.Shape, defaults.Shape),
                FillColor       |-> getString(o.FillColor, defaults.FillColor),
                BorderColor     |-> getString(o.BorderColor, defaults.BorderColor),
                BorderWidth     |-> getFloat64(o.BorderWidth, defaults.BorderWidth)]
       ELSE [defaults EXCEPT !.Font = font]

getEffectiveCenterlineProjectionStyle(defaults, override) ==
    IF override = Nil THEN defaults
    ELSE IF override[1].Color # "" THEN [Color |-> override[1].Color]
    ELSE defaults

(***************************************************************************)
(* Stroke dash array, text size estimates.                                 *)
(***************************************************************************)
\* the two numbers of the stroke-dasharray attribute, <<>> for no attribute
getStrokeDashArray(styleType, width) ==
    LET w == IF width <= 0 THEN 1 ELSE width
    IN IF styleType = "dotted" THEN <<w, w * 2>>
       ELSE IF styleType = "dashed" THEN <<w * 4, w * 2>>
       ELSE <<>>

\* font size * 1.2
getEstimatedHeight(font) ==
    IF font.FontSize <= 0 THEN 15 ELSE (font.FontSize * 12) \div 10

\* number of characters * font size * 0.6
estimateTextSVGWidth(text, font) ==
    IF font.FontSize <= 0 \/ text = "" THEN 0
    ELSE (Len(text) * font.FontSize * 6) \div 10

(***************************************************************************)
(* Padding shorthand and shape strings.                                    *)
(***************************************************************************)
parsePaddingValues(parts) ==
    [k \in 1..Len(parts) |->
        IF ParseFloat(parts[k]).err THEN 0 ELSE ParseFloat(parts[k]).val]

parsePadding_fourOnly(paddingStr) ==
    IF paddingStr = <<>> THEN <<0, 0, 0, 0>>
    ELSE LET values == parsePaddingValues(Fields(paddingStr))
         IN IF Len(values) >= 4
            THEN <<values[1], values[2], values[3], values[4]>>
            ELSE IF Len(values) >= 1
            THEN <<values[1], values[1], values[1], values[1]>>
            ELSE <<0, 0, 0, 0>>

\* parsePadding, the switch on len(values): <<top, right, bottom, left>>
paddingOfValues(values) ==
    CASE Len(values) = 1 -> <<values[1], values[1], values[1], values[1]>>
      [] Len(values) = 2 -> <<values[1], values[2], values[1], values[2]>>
      [] Len(values) = 3 -> <<values[1], values[2], values[3], values[2]>>
      [] Len(values) = 4 -> <<values[1], values[2], values[3], values[4]>>
      [] OTHER -> IF Len(values) > 4
                  THEN <<values[1], values[2], values[3], values[4]>>
                  ELSE <<0, 0, 0, 0>>

\* <<top, right, bottom, left>>
parsePadding(paddingStr) ==
    IF paddingStr = <<>> THEN <<0, 0, 0, 0>>
    ELSE paddingOfValues(parsePaddingValues(Fields(paddingStr)))

\* a Go map[string]float64: a function on its keys; a missing key reads 0
EmptyMap == [k \in {} |-> 0]
MapHas(m, key) == key \in DOMAIN m
MapGet(m, key) == IF key \in DOMAIN m THEN m[key] ELSE 0
MapPut(m, key, val) == [k \in DOMAIN m \cup {key} |-> IF k = key THEN val ELSE m[k]]

\* parseShapeString, the loop over parts[1:] from part k on: the parameters
\* read so far and the error that ended the loop, if any
RECURSIVE parseShapeParams(_, _, _)
parseShapeParams(parts, k, params) ==
    IF k > Len(parts) THEN [params |-> params, err |-> ""]
    ELSE LET paramParts == SplitN2(parts[k], "=")
         IN IF Len(paramParts) # 2
            THEN [params |-> params, err |-> "invalid parameter format in shape string"]
            ELSE LET key == Join(ToLower(TrimSpace(paramParts[1])))
                     valStr == TrimSpace(paramParts[2])
                 IN IF key = "r" /\ Join(ToLower(valStr)) = "auto"
                    THEN parseShapeParams(parts, k + 1, MapPut(params, key, -1))
                    ELSE IF ParseFloat(valStr).err
                    THEN [params |-> params, err |-> "invalid numeric value for parameter"]
                    ELSE parseShapeParams(parts, k + 1,
                                          MapPut(params, key, ParseFloat(valStr).val))

\* parseShapeString from the shape type on: the empty type, the error of
\* the parameter loop (read is what the loop returned), the required
\* parameters of the known shapes
validateShapeParams(shapeType, read) ==
    IF shapeType = ""
    THEN [shapeType |-> "none", params |-> EmptyMap,
          err |-> "shape string cannot start with ';'"]
    ELSE IF read.err # ""
    THEN [shapeType |-> shapeType, params |-> read.params, err |-> read.err]
    ELSE IF shapeType = "circle" /\ ~MapHas(read.params, "r")
    THEN [shapeType |-> shapeType, params |-> read.params,
          err |-> "missing required parameter 'r' for circle shape"]
    ELSE IF shapeType = "rectangle" /\ ~MapHas(read.params, "w")
    THEN [shapeType |-> shapeType, params |-> read.params,
          err |-> "missing required parameter 'w' for rectangle shape"]
    ELSE IF shapeType = "rectangle" /\ ~MapHas(read.params, "h")
    THEN [shapeType |-> shapeType, params |-> read.params,
          err |-> "missing required parameter 'h' for rectangle shape"]
    ELSE [shapeType |-> shapeType, params |-> read.params, err |-> ""]

\* [shapeType, params, err]; err = "" is the nil error
parseShapeString(shapeStr) ==
    IF shapeStr = <<>> \/ Join(shapeStr) = "none"
    THEN [shapeType |-> "none", params |-> EmptyMap, err |-> ""]
    ELSE validateShapeParams(Join(ToLower(TrimSpace(Split(shapeStr, ";")[1]))),
                             parseShapeParams(Split(shapeStr, ";"), 2, EmptyMap))

(***************************************************************************)
(* json.Unmarshal of the data document into []TimelineEntry.  A JSON key   *)
(* without a struct field is dropped: ConnectorStyleOverride has no field  *)
(* for "side".  Every other key of the model has a field and is kept.      *)
(***************************************************************************)
unmarshalConnectorStyleOverride(j) ==
    IF j = Nil THEN Nil
    ELSE Ptr([Color         |-> j[1].Color,
              LineType      |-> j[1].LineType,
              Width         |-> j[1].Width,
              DrawToPeriod  |-> j[1].DrawToPeriod,
              DrawToComment |-> j[1].DrawToComment,
              Dot           |-> j[1].Dot])

unmarshalTimelineEntry(j) ==
    [j EXCEPT !.ConnectorOverride = unmarshalConnectorStyleOverride(@)]

unmarshalEntries(js) == [k \in 1..Len(js) |-> unmarshalTimelineEntry(js[k])]

(***************************************************************************)
(* Bounds: the rectangle of everything drawn so far.                       *)
(***************************************************************************)
\* bounds{}: the zero value
NoBounds == [minX |-> 0, maxX |-> 0, minY |-> 0, maxY |-> 0, isSet |-> FALSE]

updatePoint_lastPointWins(b, x, y) ==
    [minX |-> x, maxX |-> x, minY |-> y, maxY |-> y, isSet |-> TRUE]

updatePoint(b, x, y) ==
    IF ~b.isSet
    THEN [minX |-> x, maxX |-> x, minY |-> y, maxY |-> y, isSet |-> TRUE]
    ELSE [minX |-> Min(b.minX, x), maxX |-> Max(b.maxX, x),
          minY |-> Min(b.minY, y), maxY |-> Max(b.maxY, y), isSet |-> TRUE]

updateRect(b, x, y, width, height) ==
    IF width > 0 /\ height > 0
    THEN updatePoint(updatePoint(b, x, y), x + width, y + height)
    ELSE b

\* the drawing state that the draw functions share: the svg buffer and the
\* bounds they are handed by pointer
Canvas(svg, b) == [svg |-> svg, bounds |-> b]
Write(cv, element) == [cv EXCEPT !.svg = Append(@, element)]
WithPoint(cv, x, y) == [cv EXCEPT !.bounds = updatePoint(@, x, y)]
WithRect(cv, x, y, width, height) == [cv EXCEPT !.bounds = updateRect(@, x, y, width, height)]
Written(before, after) == SubSeq(after.svg, Len(before.svg) + 1, Len(after.svg))
\* if cond { svg.WriteString(element) }
WriteIf(cv, cond, element) == IF cond THEN Write(cv, element) ELSE cv

(***************************************************************************)
(* Layout configuration.                                                   *)
(***************************************************************************)
initializeLayoutConfig(tpl) ==
    [layoutPadding          |-> IF tpl.Layout.Padding <= 0 THEN 50 ELSE tpl.Layout.Padding,
     defaultEntrySpacing    |-> IF tpl.Layout.EntrySpacing <= 0 THEN 150 ELSE tpl.Layout.EntrySpacing,
     defaultConnectorLength |-> IF tpl.Layout.ConnectorLength <= 0 THEN 50 ELSE tpl.Layout.ConnectorLength,
     centerLineBaseColor    |-> IF tpl.CenterLine.Color = "" THEN "#000000" ELSE tpl.CenterLine.Color,
     centerLineWidth        |-> IF tpl.CenterLine.Width <= 0 THEN 2 ELSE tpl.CenterLine.Width,
     centerLineIsRounded    |-> tpl.CenterLine.RoundedCaps]

(***************************************************************************)
(* Positions and styles of all entries.                                    *)
(***************************************************************************)
entrySpacing_noFallback(entry, config) ==
    IF entry.EntrySpacingOverride # Nil THEN entry.EntrySpacingOverride[1]
    ELSE config.defaultEntrySpacing

entrySpacing(entry, config) ==
    LET spacing == IF entry.EntrySpacingOverride # Nil
                   THEN entry.EntrySpacingOverride[1]
                   ELSE config.defaultEntrySpacing
    IN IF spacing <= 0 THEN config.defaultEntrySpacing ELSE spacing

segmentColor(entry, tpl, config) ==
    LET projStyle == getEffectiveCenterlineProjectionStyle(
                         tpl.PeriodDefaults.CenterlineProjection,
                         entry.CenterlineProjectionOverride)
    IN IF projStyle.Color = "" THEN config.centerLineBaseColor ELSE projStyle.Color

RECURSIVE positionsLoop(_, _, _, _, _, _)
positionsLoop(ents, tpl, config, k, currentPos, data) ==
    IF k >= Len(ents)
    THEN [data EXCEPT !.junctionPoints = Append(@, currentPos)]
    ELSE LET entry == At(ents, k)
             spacing == entrySpacing(entry, config)
         IN positionsLoop(ents, tpl, config, k + 1, currentPos + spacing,
              [junctionPoints  |-> Append(data.junctionPoints, currentPos),
               entryPoints     |-> Append(data.entryPoints, currentPos + spacing \div 2),
               segmentColors   |-> Append(data.segmentColors, segmentColor(entry, tpl, config)),
               markerStyles    |-> Append(data.markerStyles,
                   getEffectiveJunctionMarkerStyle(tpl.PeriodDefaults.JunctionMarker,
                                                   entry.JunctionMarkerOverride)),
               connectorStyles |-> Append(data.connectorStyles,
                   getEffectiveConnectorStyle(tpl.PeriodDefaults.Connector,
                                              entry.ConnectorOverride)),
               yearStyles      |-> Append(data.yearStyles,
                   getEffectiveYearTextStyle(tpl.GlobalFont, tpl.PeriodDefaults.YearText,
                                             entry.YearTextOverride)),
               commentStyles   |-> Append(data.commentStyles,
                   getEffectiveCommentTextStyle(tpl.GlobalFont, tpl.PeriodDefaults.CommentText,
                                                entry.CommentTextOverride))])

calculateTimelinePositionsAndStyles(ents, tpl, config) ==
    positionsLoop(ents, tpl, config, 0, 0,
        [junctionPoints |-> <<>>, entryPoints |-> <<>>, segmentColors |-> <<>>,
         markerStyles |-> <<>>, connectorStyles |-> <<>>, yearStyles |-> <<>>,
         commentStyles |-> <<>>])

(***************************************************************************)
(* Axis geometry.  math.Cos and math.Sin of a multiple of 90 degrees.      *)
(***************************************************************************)
CosDeg(a) == LET m == a % 360 IN IF m = 0 THEN 1 ELSE IF m = 180 THEN -1 ELSE 0
SinDeg(a) == LET m == a % 360 IN IF m = 90 THEN 1 ELSE IF m = 270 THEN -1 ELSE 0

calculateAxisGeometry_globalWins(x1, y1, length, orientation, globalAngle, overrideAngle) ==
    LET baseAngleDeg == IF orientation = "vertical" THEN 90 ELSE 0
        effectiveAngleDeg == IF globalAngle # Nil THEN globalAngle[1]
                             ELSE IF overrideAngle # Nil THEN overrideAngle[1]
                             ELSE baseAngleDeg
    IN [nx1 |-> x1, ny1 |-> y1,
        nx2 |-> x1 + length * CosDeg(effectiveAngleDeg),
        ny2 |-> y1 + length * SinDeg(effectiveAngleDeg),
        effectiveAngleDeg |-> effectiveAngleDeg]

calculateAxisGeometry(x1, y1, length, orientation, globalAngle, overrideAngle) ==
    LET baseAngleDeg == IF orientation = "vertical" THEN 90 ELSE 0
        effectiveAngleDeg == IF overrideAngle # Nil THEN overrideAngle[1]
                             ELSE IF globalAngle # Nil THEN globalAngle[1]
                             ELSE baseAngleDeg
    IN [nx1 |-> x1, ny1 |-> y1,
        nx2 |-> x1 + length * CosDeg(effectiveAngleDeg),
        ny2 |-> y1 + length * SinDeg(effectiveAngleDeg),
        effectiveAngleDeg |-> effectiveAngleDeg]

AxisPoint(x, y) == [X |-> x, Y |-> y]
ZeroPoints(n) == [k \in 1..n |-> AxisPoint(0, 0)]

\* GenerateSVG, initial segment (before the first entry)
initialSegment(ents, tpl, data) ==
    calculateAxisGeometry(0, 0, At(data.junctionPoints, 0),
                          tpl.CenterLine.Orientation, tpl.CenterLine.Angle,
                          At(ents, 0).AngleOverride)

\* GenerateSVG, one iteration of the phase-1 loop on the loop state st
axisLoopBody(st, ents, tpl, data) ==
    LET n == Len(ents)
        k == st.i
        points == [st.entryAxisPoints EXCEPT ![k + 1] = st.current]
    IN IF k < n - 1
       THEN LET segmentLength == At(data.junctionPoints, k + 1) - At(data.junctionPoints, k)
                nextAngleOverride == IF k + 1 < n THEN At(ents, k + 1).AngleOverride ELSE Nil
                g == calculateAxisGeometry(st.current.X, st.current.Y, segmentLength,
                                           tpl.CenterLine.Orientation, tpl.CenterLine.Angle,
                                           nextAngleOverride)
            IN [i |-> k + 1,
                current |-> AxisPoint(g.nx2, g.ny2),
                entryAxisPoints |-> points,
                segmentStartPoints |-> [st.segmentStartPoints EXCEPT ![k + 2] = AxisPoint(g.nx1, g.ny1)],
                segmentEndPoints |-> [st.segmentEndPoints EXCEPT ![k + 2] = AxisPoint(g.nx2, g.ny2)]]
       ELSE [st EXCEPT !.i = k + 1, !.entryAxisPoints = points]

\* GenerateSVG, after the phase-1 loop: the first segment is stored
storeInitialSegment(st, seg) ==
    [st EXCEPT !.segmentStartPoints[1] = AxisPoint(seg.nx1, seg.ny1),
               !.segmentEndPoints[1] = AxisPoint(seg.nx2, seg.ny2)]

RECURSIVE runAxisLoop(_, _, _, _)
runAxisLoop(st, ents, tpl, data) ==
    IF st.i >= Len(ents) THEN st
    ELSE runAxisLoop(axisLoopBody(st, ents, tpl, data), ents, tpl, data)

\* GenerateSVG, phase 1 as a whole: the axis geometry of a template and entries
axisGeometry(ents, tpl) ==
    LET config == initializeLayoutConfig(tpl)
        data == calculateTimelinePositionsAndStyles(ents, tpl, config)
        seg == initialSegment(ents, tpl, data)
        st0 == [i |-> 0, current |-> AxisPoint(seg.nx2, seg.ny2),
                entryAxisPoints |-> ZeroPoints(Len(ents)),
                segmentStartPoints |-> ZeroPoints(Len(ents)),
                segmentEndPoints |-> ZeroPoints(Len(ents))]
        st == storeInitialSegment(runAxisLoop(st0, ents, tpl, data), seg)
    IN [entryAxisPoints |-> st.entryAxisPoints,
        segmentStartPoints |-> st.segmentStartPoints,
        segmentEndPoints |-> st.segmentEndPoints]

\* drawCenterLineSegment as called by phase 2 for entry k
centerLineSegment(k, tpl, config, data, starts, ends) ==
    [X1 |-> At(starts, k).X, Y1 |-> At(starts, k).Y,
     X2 |-> At(ends, k).X,   Y2 |-> At(ends, k).Y,
     Color |-> IF At(data.segmentColors, k) = "" THEN config.centerLineBaseColor
               ELSE At(data.segmentColors, k),
     Width |-> config.centerLineWidth,
     LineType |-> tpl.CenterLine.Type,
     RoundedCaps |-> config.centerLineIsRounded]

(***************************************************************************)
(* Placement of one entry (drawTimelineEntry).                             *)
(***************************************************************************)
effectiveOrientation(isHorizontal, entry) ==
    IF entry.OrientationOverride # Nil
    THEN IF entry.OrientationOverride[1] = "horizontal" THEN TRUE
         ELSE IF entry.OrientationOverride[1] = "vertical" THEN FALSE
         ELSE isHorizontal
    ELSE isHorizontal

crossAxisDirs_sideIgnored(index, side, effectiveIsHorizontal) ==
    IF index % 2 # 0 THEN [comment |-> -1, year |-> 1]
    ELSE [comment |-> 1, year |-> -1]

crossAxisDirs(index, side, effectiveIsHorizontal) ==
    LET alternate == IF index % 2 # 0 THEN [comment |-> -1, year |-> 1]
                     ELSE [comment |-> 1, year |-> -1]
    IN IF side # ""
       THEN IF (effectiveIsHorizontal /\ side = "top")
               \/ (~effectiveIsHorizontal /\ side = "left")
            THEN [comment |-> -1, year |-> 1]
            ELSE IF (effectiveIsHorizontal /\ side = "bottom")
                    \/ (~effectiveIsHorizontal /\ side = "right")
            THEN [comment |-> 1, year |-> -1]
            ELSE alternate
       ELSE alternate

determineMarkerColor(markerStyle, segColor, connStyle) ==
    IF markerStyle.Color # Nil THEN markerStyle.Color[1]
    ELSE IF connStyle.Color # "" THEN connStyle.Color
    ELSE segColor

calculateElementCenter(params) ==
    IF params.IsHorizontal
    THEN AxisPoint(params.AxisX + params.MainOffset,
                   params.AxisY + params.CrossDir * (params.ConnectorLen + params.CrossOffset))
    ELSE AxisPoint(params.AxisX + params.CrossDir * (params.ConnectorLen + params.CrossOffset),
                   params.AxisY + params.MainOffset)

(***************************************************************************)
(* Connector: line segments and dot.  A direction vector is a fraction:    *)
(* ux = v.ux / v.den, and so on; den is the length of the connector.       *)
(***************************************************************************)
Line(of, x1, y1, x2, y2, stroke, width, dash) ==
    [kind |-> "line", of |-> of, x1 |-> x1, y1 |-> y1, x2 |-> x2, y2 |-> y2,
     stroke |-> stroke, width |-> width, dash |-> dash]

\* drawCenterLineSegment: the <line> is written, its end points recorded
drawCenterLineSegment(cv, seg) ==
    WithPoint(WithPoint(
        Write(cv, Line("axis", seg.X1, seg.Y1, seg.X2, seg.Y2, seg.Color, seg.Width,
                       getStrokeDashArray(seg.LineType, seg.Width))),
        seg.X1, seg.Y1), seg.X2, seg.Y2)

calculateConnectorStyleAttributes(style, segColor) ==
    LET connDrawWidth == IF style.Width <= 0 THEN 1 ELSE style.Width
    IN [color |-> IF style.Color = "" THEN segColor ELSE style.Color,
        width |-> connDrawWidth,
        dash  |-> getStrokeDashArray(style.LineType, connDrawWidth)]

\* vectors from the axis point (x2, y2) towards the element (x1, y1)
calculateConnectorVectors(x1, y1, x2, y2) ==
    LET dx == x1 - x2
        dy == y1 - y2
        lineLen == Sqrt(dx * dx + dy * dy)
    IN IF lineLen * 1000 > 1
       THEN [ux |-> dx, uy |-> dy, nx |-> -dy, ny |-> dx, den |-> lineLen, lineLen |-> lineLen]
       ELSE [ux |-> 1, uy |-> 0, nx |-> 0, ny |-> 1, den |-> 1, lineLen |-> lineLen]

calculateConnectorDotPosition(axisX, axisY, v, dotStyle) ==
    AxisPoint(axisX + (v.ux * dotStyle.OffsetMain + v.nx * dotStyle.OffsetCross) \div v.den,
              axisY + (v.uy * dotStyle.OffsetMain + v.ny * dotStyle.OffsetCross) \div v.den)

drawConnectorLineSegments_neverDogleg(cv, p, dot, attrs) ==
    IF ~p.LineIsVisible THEN cv
    ELSE LET zero == Abs(dot.X - p.X1) * 1000 < 1 /\ Abs(dot.Y - p.Y1) * 1000 < 1
             final == IF zero THEN AxisPoint(p.X2, p.Y2) ELSE dot
         IN WithPoint(WithPoint(
                Write(cv, Line("connector", p.X1, p.Y1, final.X, final.Y,
                               attrs.color, attrs.width, attrs.dash)),
                p.X1, p.Y1), final.X, final.Y)

drawConnectorLineSegments_neverToAxis(cv, p, dot, attrs) ==
    IF ~p.LineIsVisible THEN cv
    ELSE WithPoint(WithPoint(
             Write(cv, Line("connector", p.X1, p.Y1, dot.X, dot.Y,
                            attrs.color, attrs.width, attrs.dash)),
             p.X1, p.Y1), dot.X, dot.Y)

\* drawConnectorLineSegments with the dot as a joint of the path whether
\* or not the line stops at it
drawConnectorLineSegments_dotIsJoint(cv, p, dot, attrs) ==
    IF ~p.LineIsVisible THEN cv
    ELSE WithPoint(WithPoint(WithPoint(
             Write(Write(cv, Line("connector", p.X1, p.Y1, dot.X, dot.Y,
                                  attrs.color, attrs.width, attrs.dash)),
                   Line("connector", dot.X, dot.Y, p.X2, p.Y2,
                        attrs.color, attrs.width, attrs.dash)),
             p.X1, p.Y1), dot.X, dot.Y), p.X2, p.Y2)

drawConnectorLineSegments(cv, p, dot, attrs) ==
    IF ~p.LineIsVisible THEN cv
    ELSE LET dotStyle == p.Style.Dot
         IN IF ~dotStyle.StopAtDot
            THEN \* the line does not stop at the dot: element to axis point
                 WithPoint(WithPoint(
                     Write(cv, Line("connector", p.X1, p.Y1, p.X2, p.Y2,
                                    attrs.color, attrs.width, attrs.dash)),
                     p.X1, p.Y1), p.X2, p.Y2)
            ELSE LET isDogleg == Abs(dotStyle.OffsetCross) * 1000 >= 1
                                 \/ Abs(p.ElementCrossOffset) * 1000 >= 1
                 IN IF isDogleg
                    THEN LET mid == IF p.IsHorizontal THEN AxisPoint(p.X1, dot.Y)
                                    ELSE AxisPoint(dot.X, p.Y1)
                             cv1 == Write(cv, Line("connector", p.X1, p.Y1, mid.X, mid.Y,
                                                   attrs.color, attrs.width, attrs.dash))
                             cv2 == Write(cv1, Line("connector", mid.X, mid.Y, dot.X, dot.Y,
                                                    attrs.color, attrs.width, attrs.dash))
                         IN WithPoint(WithPoint(WithPoint(cv2, p.X1, p.Y1),
                                                mid.X, mid.Y), dot.X, dot.Y)
                    ELSE LET isZeroLengthStop == Abs(dot.X - p.X1) * 1000 < 1
                                                 /\ Abs(dot.Y - p.Y1) * 1000 < 1
                             final == IF isZeroLengthStop THEN AxisPoint(p.X2, p.Y2) ELSE dot
                         IN WithPoint(WithPoint(
                                Write(cv, Line("connector", p.X1, p.Y1, final.X, final.Y,
                                               attrs.color, attrs.width, attrs.dash)),
                                p.X1, p.Y1), final.X, final.Y)

drawConnectorDot(cv, p, dot, defaultColor) ==
    LET dotStyle == p.Style.Dot
    IN IF ~dotStyle.Visible \/ dotStyle.Shape = "none" \/ dotStyle.Size <= 0 THEN cv
       ELSE LET dotSize == dotStyle.Size
                halfDotSize == dotSize \div 2
                dotColor == IF dotStyle.Color = "" THEN defaultColor ELSE dotStyle.Color
                tip == (p.CrossAxisDir * halfDotSize * 12) \div 10
                cv1 == CASE dotStyle.Shape = "circle" ->
                              Write(cv, [kind |-> "circle", of |-> "dot", cx |-> dot.X,
                                         cy |-> dot.Y, r |-> halfDotSize, fill |-> dotColor])
                         [] dotStyle.Shape = "square" ->
                              Write(cv, [kind |-> "rect", of |-> "dot",
                                         x |-> dot.X - halfDotSize, y |-> dot.Y - halfDotSize,
                                         width |-> dotSize, height |-> dotSize, fill |-> dotColor])
                         [] dotStyle.Shape = "arrow" ->
                              Write(cv, [kind |-> "polygon", of |-> "dot",
                                         points |-> IF p.IsHorizontal
                                                    THEN <<dot.X - halfDotSize, dot.Y,
                                                           dot.X + halfDotSize, dot.Y,
                                                           dot.X, dot.Y - tip>>
                                                    ELSE <<dot.X, dot.Y - halfDotSize,
                                                           dot.X, dot.Y + halfDotSize,
                                                           dot.X - tip, dot.Y>>,
                                         fill |-> dotColor])
                         [] OTHER -> cv
            IN WithRect(cv1, dot.X - halfDotSize, dot.Y - halfDotSize, dotSize, dotSize)

\* p is the ConnectorParams
drawConnector(cv, p) ==
    LET attrs == calculateConnectorStyleAttributes(p.Style, p.SegmentColor)
        v == calculateConnectorVectors(p.X1, p.Y1, p.X2, p.Y2)
        dot == calculateConnectorDotPosition(p.X2, p.Y2, v, p.Style.Dot)
    IN drawConnectorDot(drawConnectorLineSegments(cv, p, dot, attrs), p, dot, attrs.color)

(***************************************************************************)
(* Junction marker.                                                        *)
(***************************************************************************)
\* p is the JunctionMarkerParams
drawJunctionMarker(cv, p) ==
    IF p.Style.Shape = "none" \/ p.Style.Size <= 0 THEN cv
    ELSE LET size == p.Style.Size
             halfSize == size \div 2
             cx == p.CenterX
             cy == p.CenterY
         IN IF p.Style.Shape \in {"arrow", "diamond"}
            THEN LET p1 == IF p.IsHorizontal THEN <<cx, cy + halfSize>> ELSE <<cx + halfSize, cy>>
                     p2 == IF p.IsHorizontal THEN <<cx - halfSize, cy>> ELSE <<cx, cy - halfSize>>
                     p3 == IF p.IsHorizontal THEN <<cx + halfSize, cy>> ELSE <<cx, cy + halfSize>>
                     p4 == IF p.IsHorizontal THEN <<cx, cy - halfSize>> ELSE <<cx - halfSize, cy>>
                     cv1 == Write(cv, [kind |-> "polygon", of |-> "marker",
                                       points |-> p1 \o p2 \o p3, fill |-> p.MarkerColor])
                     cv2 == Write(cv1, [kind |-> "polygon", of |-> "marker",
                                        points |-> p4 \o p2 \o p3, fill |-> p.MarkerColor])
                 IN WithPoint(WithPoint(cv2, cx - halfSize, cy - halfSize),
                              cx + halfSize, cy + halfSize)
            ELSE IF p.Style.Shape = "circle"
            THEN WithRect(Write(cv, [kind |-> "circle", of |-> "marker", cx |-> cx, cy |-> cy,
                                     r |-> halfSize, fill |-> p.MarkerColor]),
                          cx - halfSize, cy - halfSize, size, size)
            ELSE cv

(***************************************************************************)
(* Year element: optional link, background shape, text.                    *)
(***************************************************************************)
\* drawYearShape without the return for a radius of 0
drawYearShape_zeroRadiusDrawn(cv, p) ==
    IF p.ShapeType = "circle"
    THEN LET r == MapGet(p.ShapeParams, "r")
             auto == Max(p.TextWidth \div 2, p.TextHeight \div 2) + 4
             radius == IF r < 0 THEN (IF auto < 6 THEN 6 ELSE auto) ELSE r
         IN Write(cv, [kind |-> "circle", of |-> "yearShape", cx |-> p.CenterX,
                       cy |-> p.CenterY, r |-> radius, fill |-> p.YearStyle.FillColor,
                       stroke |-> p.YearStyle.BorderColor,
                       width |-> p.YearStyle.BorderWidth])
    ELSE IF p.ShapeType = "rectangle"
    THEN LET rectW == MapGet(p.ShapeParams, "w")
             rectH == MapGet(p.ShapeParams, "h")
         IN IF rectW > 0 /\ rectH > 0
            THEN Write(cv, [kind |-> "rect", of |-> "yearShape",
                            x |-> p.CenterX - rectW \div 2, y |-> p.CenterY - rectH \div 2,
                            width |-> rectW, height |-> rectH,
                            fill |-> p.YearStyle.FillColor,
                            stroke |-> p.YearStyle.BorderColor,
                            strokeWidth |-> p.YearStyle.BorderWidth])
            ELSE cv
    ELSE cv

\* p is the YearShapeParams; the shape is written, the bounds are not touched
drawYearShape(cv, p) ==
    IF p.ShapeType = "circle"
    THEN LET r == MapGet(p.ShapeParams, "r")
             auto == Max(p.TextWidth \div 2, p.TextHeight \div 2) + 4
             radius == IF r < 0 THEN (IF auto < 6 THEN 6 ELSE auto) ELSE r
         IN IF r = 0 THEN cv
            ELSE Write(cv, [kind |-> "circle", of |-> "yearShape", cx |-> p.CenterX,
                            cy |-> p.CenterY, r |-> radius, fill |-> p.YearStyle.FillColor,
                            stroke |-> p.YearStyle.BorderColor,
                            width |-> p.YearStyle.BorderWidth])
    ELSE IF p.ShapeType = "rectangle"
    THEN LET rectW == MapGet(p.ShapeParams, "w")
             rectH == MapGet(p.ShapeParams, "h")
         IN IF rectW > 0 /\ rectH > 0
            THEN Write(cv, [kind |-> "rect", of |-> "yearShape",
                            x |-> p.CenterX - rectW \div 2, y |-> p.CenterY - rectH \div 2,
                            width |-> rectW, height |-> rectH,
                            fill |-> p.YearStyle.FillColor,
                            stroke |-> p.YearStyle.BorderColor,
                            strokeWidth |-> p.YearStyle.BorderWidth])
            ELSE cv
    ELSE cv

yearShapeParams_shapeDespiteError(parsed, entry, yearStyle, centerX, centerY) ==
    [ShapeType |-> parsed.shapeType,
     ShapeParams |-> parsed.params,
     CenterX |-> centerX, CenterY |-> centerY,
     TextWidth |-> estimateTextSVGWidth(entry.Period, yearStyle.Font),
     TextHeight |-> getEstimatedHeight(yearStyle.Font),
     YearStyle |-> yearStyle]

\* drawYearElement, the YearShapeParams it hands to drawYearShape; parsed is
\* what parseShapeString returned: on a parse error a warning is logged and
\* the shape is skipped
yearShapeParams(parsed, entry, yearStyle, centerX, centerY) ==
    [ShapeType |-> IF parsed.err # "" THEN "none" ELSE parsed.shapeType,
     ShapeParams |-> parsed.params,
     CenterX |-> centerX, CenterY |-> centerY,
     TextWidth |-> estimateTextSVGWidth(entry.Period, yearStyle.Font),
     TextHeight |-> getEstimatedHeight(yearStyle.Font),
     YearStyle |-> yearStyle]

drawYearElement(cv, entry, yearStyle, centerX, centerY) ==
    LET yearStr == entry.Period
        estWidth == Min((Len(yearStr) * yearStyle.Font.FontSize * 7) \div 10, 200)
        estHeight == yearStyle.Font.FontSize
    IN WriteIf(
           WithRect(
               Write(
                   drawYearShape(
                       WriteIf(cv, entry.Link # "",
                               [kind |-> "a", of |-> "linkOpen", href |-> entry.Link]),
                       yearShapeParams(parseShapeString(Runes(yearStyle.Shape)),
                                       entry, yearStyle, centerX, centerY)),
                   [kind |-> "text", of |-> "yearText", x |-> centerX, y |-> centerY,
                    font |-> yearStyle.Font, fill |-> yearStyle.TextColor,
                    text |-> yearStr]),
               centerX - estWidth \div 2, centerY - estHeight \div 2, estWidth, estHeight),
           entry.Link # "", [kind |-> "a", of |-> "linkClose", href |-> ""])

(***************************************************************************)
(* Comment block: layout, background, title, title line, body.             *)
(***************************************************************************)
calculateForeignObjectHeight(bodyText, imageURL) ==
    IF bodyText = "" /\ imageURL = "" THEN 0
    ELSE IF bodyText = "" /\ imageURL # "" THEN imagePlaceholderHeight + 10
    ELSE foreignObjectHeightEstimate

calculateBlockPosition(anchorX, anchorY, blockWidth, totalHeight, crossAxisDir, isHorizontal) ==
    IF isHorizontal
    THEN AxisPoint(anchorX - blockWidth \div 2,
                   IF crossAxisDir < 0 THEN anchorY - totalHeight ELSE anchorY)
    ELSE AxisPoint(IF crossAxisDir < 0 THEN anchorX - blockWidth ELSE anchorX,
                   anchorY - totalHeight \div 2)

\* calculateCommentBlockLayout up to the visual block dimensions: the padding
\* (pad is what parsePadding returned), the positions relative to the block
\* top and the width and height of the block; p is the CommentParams
commentBlockDimensions(p, pad) ==
    LET padTop == pad[1]
        padRight == pad[2]
        padBottom == pad[3]
        padLeft == pad[4]
        titleFont == p.Style.TitleFont
        titleLine == p.Style.TitleLine
        hasTitle == p.TitleText # ""
        estTitleHeight == IF hasTitle THEN getEstimatedHeight(titleFont) ELSE 0
        titleWidth == IF hasTitle THEN estimateTextSVGWidth(p.TitleText, titleFont) ELSE 0
        afterTitle == padTop + estTitleHeight
        hasLine == titleLine.Visible /\ titleLine.Width > 0 /\ titleLine.Length > 0
        currentRelY == IF hasLine
                       THEN afterTitle + titleLine.Margin + titleLine.Width + titleLine.Margin
                       ELSE afterTitle
        estTitleWidth == IF hasLine THEN Max(titleWidth, titleLine.Length) ELSE titleWidth
        foHeight == calculateForeignObjectHeight(p.BodyText, p.ImageURL)
    IN [padTop |-> padTop, padRight |-> padRight, padBottom |-> padBottom, padLeft |-> padLeft,
        titleTextRelY |-> IF hasTitle THEN padTop ELSE 0,
        titleLineRelY |-> IF hasLine THEN afterTitle + titleLine.Margin ELSE 0,
        bodyRelY |-> currentRelY,
        foHeight |-> foHeight,
        contentWidth |-> Max(IF p.Style.BlockWidth # Nil /\ p.Style.BlockWidth[1] > 0
                             THEN p.Style.BlockWidth[1]
                             ELSE estTitleWidth, 0),
        visualBlockHeight |-> currentRelY + foHeight + padBottom]

\* calculateCommentBlockLayout from the block position on: the top-left corner
\* of the block and the absolute content positions; m is the dimensions
commentBlockPositions(p, m) ==
    LET visualBlockWidth == m.contentWidth + m.padLeft + m.padRight
        block == calculateBlockPosition(p.AnchorX, p.AnchorY, visualBlockWidth,
                                        m.visualBlockHeight, p.CrossAxisDir, p.IsHorizontal)
    IN [blockX |-> block.X, blockY |-> block.Y,
        visualBlockWidth |-> visualBlockWidth, visualBlockHeight |-> m.visualBlockHeight,
        contentCenterX |-> block.X + m.padLeft + m.contentWidth \div 2,
        titleTextAbsY |-> block.Y + m.titleTextRelY,
        titleLineAbsY |-> block.Y + m.titleLineRelY,
        bodyAbsX |-> block.X + m.padLeft, bodyAbsY |-> block.Y + m.bodyRelY,
        foHeight |-> m.foHeight,
        padTop |-> m.padTop, padRight |-> m.padRight, padBottom |-> m.padBottom,
        padLeft |-> m.padLeft,
        contentWidth |-> m.contentWidth]

\* p is the CommentParams
calculateCommentBlockLayout(p) ==
    commentBlockPositions(p, commentBlockDimensions(p, parsePadding(Runes(p.Style.Padding))))

\* the centre of the edge of the block that faces the axis
calculateCommentEdgePoint(layout, crossAxisDir, isHorizontal) ==
    IF isHorizontal
    THEN IF crossAxisDir < 0
         THEN AxisPoint(layout.blockX + layout.visualBlockWidth \div 2, layout.blockY)
         ELSE AxisPoint(layout.blockX + layout.visualBlockWidth \div 2,
                        layout.blockY + layout.visualBlockHeight)
    ELSE IF crossAxisDir < 0
         THEN AxisPoint(layout.blockX, layout.blockY + layout.visualBlockHeight \div 2)
         ELSE AxisPoint(layout.blockX + layout.visualBlockWidth,
                        layout.blockY + layout.visualBlockHeight \div 2)

drawCommentBackground(cv, style, layout) ==
    IF style.Shape = "rectangle"
    THEN LET rectBorderWidth == IF style.BorderWidth < 0 THEN 0 ELSE style.BorderWidth
         IN WithRect(
                Write(cv, [kind |-> "rect", of |-> "commentBackground",
                           x |-> layout.blockX, y |-> layout.blockY,
                           width |-> layout.visualBlockWidth,
                           height |-> layout.visualBlockHeight,
                           fill |-> IF style.FillColor = "" THEN "none" ELSE style.FillColor,
                           stroke |-> IF style.BorderColor = "" THEN "none" ELSE style.BorderColor,
                           strokeWidth |-> rectBorderWidth,
                           dash |-> getStrokeDashArray(style.BorderStyle, rectBorderWidth)]),
                layout.blockX, layout.blockY, layout.visualBlockWidth, layout.visualBlockHeight)
    ELSE cv

\* p is the CommentTitleParams
drawCommentTitle(cv, p) ==
    WithPoint(Write(cv, [kind |-> "text", of |-> "commentTitle",
                         x |-> p.Layout.contentCenterX, y |-> p.Layout.titleTextAbsY,
                         font |-> p.TitleFont, fill |-> p.TitleColor, text |-> p.TitleText]),
              p.Layout.contentCenterX, p.Layout.titleTextAbsY)

\* p is the CommentTitleLineParams
drawCommentTitleLine(cv, p) ==
    LET lineX1 == p.Layout.contentCenterX - p.TitleLine.Length \div 2
        lineX2 == p.Layout.contentCenterX + p.TitleLine.Length \div 2
    IN WithPoint(WithPoint(
           Write(cv, Line("titleLine", lineX1, p.Layout.titleLineAbsY, lineX2,
                          p.Layout.titleLineAbsY, p.TitleLine.Color, p.TitleLine.Width, <<>>)),
           lineX1, p.Layout.titleLineAbsY), lineX2, p.Layout.titleLineAbsY)

\* the src of the <img>: a remote reference or a data URI is kept, a local
\* path is read and embedded, "" (no <img>) when the file cannot be read
imageSource(imageURL, readable) ==
    IF imageURL = "" THEN ""
    ELSE LET rs == Runes(imageURL)
         IN IF ~HasPrefix(rs, Runes("http://")) /\ ~HasPrefix(rs, Runes("https://"))
               /\ ~HasPrefix(rs, Runes("data:"))
            THEN IF imageURL \in readable THEN "data:" \o imageURL ELSE ""
            ELSE imageURL

\* p is the CommentBodyParams; readable: the paths os.ReadFile can read
drawCommentBody(cv, p, readable) ==
    LET contentWidth == p.Layout.contentWidth
        cv1 == WithRect(cv, p.Layout.bodyAbsX, p.Layout.bodyAbsY, contentWidth, p.Layout.foHeight)
    IN Write(cv1, [kind |-> "foreignObject", of |-> "commentBody",
                   x |-> p.Layout.bodyAbsX, y |-> p.Layout.bodyAbsY,
                   width |-> contentWidth, height |-> p.Layout.foHeight,
                   color |-> p.TextColor, font |-> p.BodyFont,
                   textAlign |-> IF p.Params.Style.TextAlign = "" THEN "center"
                                 ELSE p.Params.Style.TextAlign,
                   img |-> imageSource(p.Params.ImageURL, readable),
                   text |-> p.Params.BodyText])

\* drawComment, "Draw Title Text": only with a title
drawCommentTitleIfAny(cv, p, titleColor, blockLayout) ==
    IF p.TitleText # ""
    THEN drawCommentTitle(cv, [TitleText |-> p.TitleText, TitleFont |-> p.Style.TitleFont,
                               TitleColor |-> titleColor, Layout |-> blockLayout])
    ELSE cv

\* drawComment, "Draw Title Line": only with a title and a visible line
drawCommentTitleLineIfAny(cv, p, blockLayout) ==
    IF p.TitleText # "" /\ p.Style.TitleLine.Visible /\ p.Style.TitleLine.Length > 0
       /\ p.Style.TitleLine.Width > 0
    THEN drawCommentTitleLine(cv, [TitleLine |-> p.Style.TitleLine, Layout |-> blockLayout])
    ELSE cv

\* drawComment, "Draw Body Content": only when the body has a height
drawCommentBodyIfAny(cv, p, textColor, blockLayout, readable) ==
    IF blockLayout.foHeight > 0
    THEN drawCommentBody(cv, [Params |-> p, BodyFont |-> p.Style.Font,
                              TextColor |-> textColor, Layout |-> blockLayout], readable)
    ELSE cv

\* drawComment once the block layout is calculated
drawCommentWithLayout(cv, p, blockLayout, readable) ==
    LET textColor == IF p.Style.TextColor = "" THEN p.DefaultColor ELSE p.Style.TextColor
        titleColor == IF p.Style.TitleColor = "" THEN textColor ELSE p.Style.TitleColor
    IN drawCommentBodyIfAny(
           drawCommentTitleLineIfAny(
               drawCommentTitleIfAny(
                   drawCommentBackground(cv, p.Style, blockLayout),
                   p, titleColor, blockLayout),
               p, blockLayout),
           p, textColor, blockLayout, readable)

\* p is the CommentParams
drawComment(cv, p, readable) ==
    drawCommentWithLayout(cv, p, calculateCommentBlockLayout(p), readable)

\* what a drawConnector call was given and what it wrote; a draw function only
\* appends to the buffer, so what it writes is the same on every canvas
ConnectorRecord(cv, p) == [params |-> p, written |-> Written(cv, drawConnector(cv, p))]

\* drawTimelineEntry before anything is drawn: the effective orientation, the
\* styles of entry index, the sides, the marker color and the two line flags
entryResolved(index, entry, data, axisPoint, isHorizontal, config) ==
    LET effectiveIsHorizontal == effectiveOrientation(isHorizontal, entry)
        connStyle == At(data.connectorStyles, index)
    IN [index |-> index, entry |-> entry, axisPoint |-> axisPoint, config |-> config,
        effectiveIsHorizontal |-> effectiveIsHorizontal,
        connStyle |-> connStyle,
        commentStyle |-> At(data.commentStyles, index),
        yearStyle |-> At(data.yearStyles, index),
        markerStyle |-> At(data.markerStyles, index),
        segColor |-> At(data.segmentColors, index),
        dirs |-> crossAxisDirs(index, connStyle.Side, effectiveIsHorizontal),
        markerColor |-> determineMarkerColor(At(data.markerStyles, index),
                                             At(data.segmentColors, index), connStyle),
        drawPeriodLine |-> connStyle.DrawToPeriod = Nil \/ connStyle.DrawToPeriod[1],
        hasComment |-> entry.CommentText # "" \/ entry.TitleText # ""
                       \/ entry.CommentImage # "",
        drawCommentLine |-> connStyle.DrawToComment = Nil \/ connStyle.DrawToComment[1]]

\* drawTimelineEntry: yearCenterX, yearCenterY; r is what entryResolved gives
entryYearCenter(r) ==
    calculateElementCenter([AxisX |-> r.axisPoint.X, AxisY |-> r.axisPoint.Y,
                            MainOffset |-> r.yearStyle.MainAxisOffset,
                            CrossOffset |-> r.yearStyle.CrossAxisOffset,
                            ConnectorLen |-> r.config.defaultConnectorLength,
                            CrossDir |-> r.dirs.year,
                            IsHorizontal |-> r.effectiveIsHorizontal])

\* drawTimelineEntry: the ConnectorParams of the line to the year element
yearConnectorParams(r, yearCenter) ==
    [X1 |-> yearCenter.X, Y1 |-> yearCenter.Y,
     X2 |-> r.axisPoint.X, Y2 |-> r.axisPoint.Y,
     Style |-> r.connStyle, SegmentColor |-> r.segColor,
     IsHorizontal |-> r.effectiveIsHorizontal,
     CrossAxisDir |-> r.dirs.year,
     LineIsVisible |-> r.drawPeriodLine,
     ElementCrossOffset |-> r.yearStyle.CrossAxisOffset]

\* drawTimelineEntry: commentAnchorX, commentAnchorY
entryCommentAnchor(r) ==
    calculateElementCenter([AxisX |-> r.axisPoint.X, AxisY |-> r.axisPoint.Y,
                            MainOffset |-> r.commentStyle.MainAxisOffset,
                            CrossOffset |-> r.commentStyle.CrossAxisOffset,
                            ConnectorLen |-> r.config.defaultConnectorLength,
                            CrossDir |-> r.dirs.comment,
                            IsHorizontal |-> r.effectiveIsHorizontal])

\* drawTimelineEntry: the CommentParams of the comment block
entryCommentParams(r, commentAnchor) ==
    [Style |-> r.commentStyle,
     AnchorX |-> commentAnchor.X, AnchorY |-> commentAnchor.Y,
     CrossAxisDir |-> r.dirs.comment,
     IsHorizontal |-> r.effectiveIsHorizontal,
     SegmentWidth |-> r.config.defaultEntrySpacing,
     DefaultColor |-> r.connStyle.Color,
     TitleText |-> r.entry.TitleText, BodyText |-> r.entry.CommentText,
     ImageURL |-> r.entry.CommentImage]

\* drawTimelineEntry: the ConnectorParams of the line to the comment block,
\* from the edge of the block that faces the axis
commentConnectorParams(r, commentEdge) ==
    [X1 |-> commentEdge.X, Y1 |-> commentEdge.Y,
     X2 |-> r.axisPoint.X, Y2 |-> r.axisPoint.Y,
     Style |-> r.connStyle, SegmentColor |-> r.segColor,
     IsHorizontal |-> r.effectiveIsHorizontal,
     CrossAxisDir |-> r.dirs.comment,
     LineIsVisible |-> r.drawCommentLine,
     ElementCrossOffset |-> r.commentStyle.CrossAxisOffset]

entryCommentConnectorParams(r) ==
    commentConnectorParams(r,
        calculateCommentEdgePoint(
            calculateCommentBlockLayout(entryCommentParams(r, entryCommentAnchor(r))),
            r.dirs.comment, r.effectiveIsHorizontal))

\* drawTimelineEntry: the connector to the year element, if it is to be drawn
drawEntryYearConnector(cv, r) ==
    IF r.drawPeriodLine
    THEN drawConnector(cv, yearConnectorParams(r, entryYearCenter(r)))
    ELSE cv

\* drawTimelineEntry: connector and comment block, if the entry has a comment
drawEntryComment(cv, r, readable) ==
    IF r.hasComment
    THEN drawComment(drawConnector(cv, entryCommentConnectorParams(r)),
                     entryCommentParams(r, entryCommentAnchor(r)), readable)
    ELSE cv

\* what drawTimelineEntry decided and wrote: cv is the canvas it was given,
\* after the canvas it left
entryOutcome(cv, r, after) ==
    [index                 |-> r.index,
     effectiveIsHorizontal |-> r.effectiveIsHorizontal,
     commentCrossAxisDir   |-> r.dirs.comment,
     yearCrossAxisDir      |-> r.dirs.year,
     markerCenter          |-> r.axisPoint,
     markerColor           |-> r.markerColor,
     yearCenter            |-> entryYearCenter(r),
     drawPeriodLine        |-> r.drawPeriodLine,
     hasComment            |-> r.hasComment,
     commentAnchor         |-> IF r.hasComment THEN Ptr(entryCommentAnchor(r)) ELSE Nil,
     drawCommentLine       |-> r.hasComment /\ r.drawCommentLine,
     yearConnector         |-> IF r.drawPeriodLine
                               THEN Ptr(ConnectorRecord(cv,
                                        yearConnectorParams(r, entryYearCenter(r))))
                               ELSE Nil,
     commentConnector      |-> IF r.hasComment
                               THEN Ptr(ConnectorRecord(cv, entryCommentConnectorParams(r)))
                               ELSE Nil,
     yearElement           |-> Written(cv, drawYearElement(cv, r.entry, r.yearStyle,
                                                           entryYearCenter(r).X,
                                                           entryYearCenter(r).Y)),
     written               |-> Written(cv, after),
     svg                   |-> after.svg,
     bounds                |-> after.bounds]

\* drawTimelineEntry once the styles of the entry are resolved: junction
\* marker, year connector, year element, comment connector and comment
drawResolvedEntry(cv, r, readable) ==
    entryOutcome(cv, r,
        drawEntryComment(
            drawYearElement(
                drawEntryYearConnector(
                    drawJunctionMarker(cv,
                        [Style |-> r.markerStyle,
                         CenterX |-> r.axisPoint.X, CenterY |-> r.axisPoint.Y,
                         MarkerColor |-> r.markerColor,
                         IsHorizontal |-> r.effectiveIsHorizontal,
                         CenterLineWidth |-> r.config.centerLineWidth]),
                    r),
                r.entry, r.yearStyle, entryYearCenter(r).X, entryYearCenter(r).Y),
            r, readable))

drawTimelineEntry(cv, index, entry, data, axisPoint, isHorizontal, config, readable) ==
    drawResolvedEntry(cv, entryResolved(index, entry, data, axisPoint, isHorizontal, config),
                      readable)

\* the part of drawTimelineEntry's outcome that is about the entry alone
Placement(drawn) == [f \in DOMAIN drawn \ {"svg", "bounds"} |-> drawn[f]]

\* the white canvas and the translated group around the body
assembleFinalSVG_noFloor(body, b, layoutPadding, globalFont) ==
    [width   |-> layoutPadding * 2 + (IF b.isSet THEN b.maxX - b.minX ELSE 600),
     height  |-> layoutPadding * 2 + (IF b.isSet THEN b.maxY - b.minY ELSE 100),
     offsetX |-> layoutPadding - b.minX,
     offsetY |-> layoutPadding - b.minY,
     body    |-> body]

assembleFinalSVG(body, b, layoutPadding, globalFont) ==
    LET finalWidth == layoutPadding * 2 + (IF b.isSet THEN b.maxX - b.minX ELSE 600)
        finalHeight == layoutPadding * 2 + (IF b.isSet THEN b.maxY - b.minY ELSE 100)
    IN [width   |-> Max(finalWidth, 10),
        height  |-> Max(finalHeight, 10),
        offsetX |-> layoutPadding - b.minX,
        offsetY |-> layoutPadding - b.minY,
        body    |-> body]

(***************************************************************************)
(* The run: json.Unmarshal of the data, then GenerateSVG in its phases.    *)
(***************************************************************************)
NoData == [junctionPoints |-> <<>>, entryPoints |-> <<>>, segmentColors |-> <<>>,
           markerStyles |-> <<>>, connectorStyles |-> <<>>, yearStyles |-> <<>>,
           commentStyles |-> <<>>]

\* nothing of GenerateSVG has run
InitGenerate ==
    /\ entries = <<>>
    /\ layoutConfig = Nil
    /\ timelineData = NoData
    /\ i = 0
    /\ current = AxisPoint(0, 0)
    /\ entryAxisPoints = <<>>
    /\ segmentStartPoints = <<>>
    /\ segmentEndPoints = <<>>
    /\ initialSeg = Nil
    /\ svgSegments = <<>>
    /\ placements = <<>>
    /\ result = Nil
    /\ svgBody = <<>>
    /\ timelineBounds = NoBounds
    /\ history = <<>>

InitRun ==
    /\ InitGenerate
    /\ pc = "parse"
    /\ files = {}
    /\ call = Nil
    /\ mainRun = Nil

\* what a returned GenerateSVG call was given, the axis points and bounds it
\* computed (none on the error return) and what it returned
Returned(res, points, b) ==
    [template |-> template, entries |-> entries, files |-> files,
     entryAxisPoints |-> points, bounds |-> b, result |-> res]

\* main / TestSVGGeneration: json.Unmarshal(dataBytes, &data)
ParseData ==
    /\ pc = "parse"
    /\ entries' = unmarshalEntries(dataJSON)
    /\ pc' = "ready"
    /\ UNCHANGED <<template, dataJSON, layoutConfig, timelineData, i, current,
                   entryAxisPoints, segmentStartPoints, segmentEndPoints,
                   initialSeg, svgSegments, placements, result>>
    /\ UNCHANGED <<svgBody, timelineBounds, files, call, mainRun, history>>

\* GenerateSVG with no entries: the error return
GenerateSVGEmpty ==
    /\ pc = "ready"
    /\ Len(entries) = 0
    /\ result' = Ptr([svg |-> "", err |-> "no timeline entries to generate"])
    /\ pc' = "error"
    /\ history' = Append(history, Returned(result', <<>>, NoBounds))
    /\ UNCHANGED <<template, dataJSON, entries, layoutConfig, timelineData, i, current,
                   entryAxisPoints, segmentStartPoints, segmentEndPoints,
                   initialSeg, svgSegments, placements>>
    /\ UNCHANGED <<svgBody, timelineBounds, files, call, mainRun>>

GenerateSVGStart_boundsKept ==
    /\ pc = "ready"
    /\ Len(entries) # 0
    /\ LET config == initializeLayoutConfig(template)
           data == calculateTimelinePositionsAndStyles(entries, template, config)
           seg == initialSegment(entries, template, data)
       IN /\ layoutConfig' = Ptr(config)
          /\ timelineData' = data
          /\ initialSeg' = Ptr(seg)
          /\ current' = AxisPoint(seg.nx2, seg.ny2)
    /\ entryAxisPoints' = ZeroPoints(Len(entries))
    /\ segmentStartPoints' = ZeroPoints(Len(entries))
    /\ segmentEndPoints' = ZeroPoints(Len(entries))
    /\ i' = 0
    /\ pc' = "phase1"
    /\ svgSegments' = <<>>
    /\ placements' = <<>>
    /\ svgBody' = <<>>
    /\ timelineBounds' = updatePoint(timelineBounds, 0, 0)
    /\ UNCHANGED <<template, dataJSON, entries, result>>
    /\ UNCHANGED <<files, call, mainRun, history>>

\* GenerateSVG up to the phase-1 loop: fresh buffer and bounds, the start
\* point recorded, configuration, positions and styles, initial segment
GenerateSVGStart ==
    /\ pc = "ready"
    /\ Len(entries) # 0
    /\ LET config == initializeLayoutConfig(template)
           data == calculateTimelinePositionsAndStyles(entries, template, config)
           seg == initialSegment(entries, template, data)
       IN /\ layoutConfig' = Ptr(config)
          /\ timelineData' = data
          /\ initialSeg' = Ptr(seg)
          /\ current' = AxisPoint(seg.nx2, seg.ny2)
    /\ entryAxisPoints' = ZeroPoints(Len(entries))
    /\ segmentStartPoints' = ZeroPoints(Len(entries))
    /\ segmentEndPoints' = ZeroPoints(Len(entries))
    /\ i' = 0
    /\ pc' = "phase1"
    /\ svgSegments' = <<>>
    /\ placements' = <<>>
    /\ svgBody' = <<>>
    /\ timelineBounds' = updatePoint(NoBounds, 0, 0)
    /\ UNCHANGED <<template, dataJSON, entries, result>>
    /\ UNCHANGED <<files, call, mainRun, history>>

\* GenerateSVG phase 1: one iteration of the axis walk; the last one also
\* stores the first segment and leaves the loop
Phase1Step ==
    /\ pc = "phase1"
    /\ i < Len(entries)
    /\ LET st == [i |-> i, current |-> current, entryAxisPoints |-> entryAxisPoints,
                  segmentStartPoints |-> segmentStartPoints,
                  segmentEndPoints |-> segmentEndPoints]
           st1 == axisLoopBody(st, entries, template, timelineData)
           last == st1.i >= Len(entries)
           st2 == IF last THEN storeInitialSegment(st1, initialSeg[1]) ELSE st1
       IN /\ current' = st2.current
          /\ entryAxisPoints' = st2.entryAxisPoints
          /\ segmentStartPoints' = st2.segmentStartPoints
          /\ segmentEndPoints' = st2.segmentEndPoints
          /\ i' = IF last THEN 0 ELSE st2.i
          /\ pc' = IF last THEN "phase2" ELSE "phase1"
    /\ UNCHANGED <<template, dataJSON, entries, layoutConfig, timelineData,
                   initialSeg, svgSegments, placements, result>>
    /\ UNCHANGED <<svgBody, timelineBounds, files, call, mainRun, history>>

\* GenerateSVG phase 2: the center line segment of entry i is drawn
Phase2Step ==
    /\ pc = "phase2"
    /\ i < Len(entries)
    /\ LET seg == centerLineSegment(i, template, layoutConfig[1], timelineData,
                                    segmentStartPoints, segmentEndPoints)
           cv == drawCenterLineSegment(Canvas(svgBody, timelineBounds), seg)
       IN /\ svgSegments' = Append(svgSegments, seg)
          /\ svgBody' = cv.svg
          /\ timelineBounds' = cv.bounds
    /\ i' = IF i + 1 >= Len(entries) THEN 0 ELSE i + 1
    /\ pc' = IF i + 1 >= Len(entries) THEN "phase3" ELSE "phase2"
    /\ UNCHANGED <<template, dataJSON, entries, layoutConfig, timelineData, current,
                   entryAxisPoints, segmentStartPoints, segmentEndPoints,
                   initialSeg, placements, result>>
    /\ UNCHANGED <<files, call, mainRun, history>>

\* GenerateSVG phase 3: entry i is drawn on top
Phase3Step ==
    /\ pc = "phase3"
    /\ i < Len(entries)
    /\ \E drawn \in {drawTimelineEntry(Canvas(svgBody, timelineBounds), i, At(entries, i),
                                          timelineData, At(entryAxisPoints, i),
                                          template.CenterLine.Orientation = "horizontal",
                                          layoutConfig[1], files)} :
          /\ placements' = Append(placements, Placement(drawn))
          /\ svgBody' = drawn.svg
          /\ timelineBounds' = drawn.bounds
    /\ i' = i + 1
    /\ pc' = IF i + 1 >= Len(entries) THEN "assemble" ELSE "phase3"
    /\ UNCHANGED <<template, dataJSON, entries, layoutConfig, timelineData, current,
                   entryAxisPoints, segmentStartPoints, segmentEndPoints,
                   initialSeg, svgSegments, result>>
    /\ UNCHANGED <<files, call, mainRun, history>>

\* GenerateSVG: the document is assembled and returned
AssembleFinalSVG ==
    /\ pc = "assemble"
    /\ result' = Ptr([svg |-> assembleFinalSVG(svgBody, timelineBounds,
                                               layoutConfig[1].layoutPadding,
                                               template.GlobalFont),
                      err |-> ""])
    /\ pc' = "done"
    /\ history' = Append(history, Returned(result', entryAxisPoints, timelineBounds))
    /\ UNCHANGED <<template, dataJSON, entries, layoutConfig, timelineData, i, current,
                   entryAxisPoints, segmentStartPoints, segmentEndPoints,
                   initialSeg, svgSegments, placements>>
    /\ UNCHANGED <<svgBody, timelineBounds, files, call, mainRun>>

Next ==
    \/ ParseData
    \/ GenerateSVGEmpty
    \/ GenerateSVGStart
    \/ Phase1Step
    \/ Phase2Step
    \/ Phase3Step
    \/ AssembleFinalSVG

(***************************************************************************)
(* Inputs: templates.                                                      *)
(***************************************************************************)
FontZero == [FontFamily |-> "", FontSize |-> 0, FontWeight |-> "", FontStyle |-> ""]

DotFull == [Size |-> 8, Color |-> "#999999", Shape |-> "circle", Visible |-> TRUE,
            OffsetMain |-> 2, OffsetCross |-> 4, StopAtDot |-> TRUE]
DotZero == [Size |-> 0, Color |-> "", Shape |-> "", Visible |-> FALSE,
            OffsetMain |-> 0, OffsetCross |-> 0, StopAtDot |-> FALSE]

TitleLineFull == [Visible |-> TRUE, Color |-> "#444444", Width |-> 1, Length |-> 30, Margin |-> 4]
TitleLineZero == [Visible |-> FALSE, Color |-> "", Width |-> 0, Length |-> 0, Margin |-> 0]

PeriodDefaultsFull ==
    [YearText |-> [Position |-> "end", MainAxisOffset |-> 4, CrossAxisOffset |-> 6,
                   TextColor |-> "#111111", Font |-> FontZero, Shape |-> "circle;r=10",
                   FillColor |-> "#FFFFFF", BorderColor |-> "#222222", BorderWidth |-> 2],
     Connector |-> [DrawToPeriod |-> Ptr(TRUE), DrawToComment |-> Ptr(FALSE), Width |-> 2,
                    Color |-> "#888888", LineType |-> "dashed", Side |-> "", Dot |-> DotFull],
     CommentText |-> [Position |-> "start", MainAxisOffset |-> 8, CrossAxisOffset |-> 10,
                      Font |-> FontZero, TitleFont |-> FontZero, TitleLine |-> TitleLineFull,
                      TitleColor |-> "#555555", Shape |-> "rectangle", FillColor |-> "#F8F8F8",
                      TextColor |-> "#333333", Padding |-> "8", BlockWidth |-> Ptr(120),
                      BorderColor |-> "#DDDDDD", BorderWidth |-> 1, BorderStyle |-> "solid",
                      TextAlign |-> "center"],
     CenterlineProjection |-> [Color |-> "#BDBDBD"],
     JunctionMarker |-> [Shape |-> "diamond", Size |-> 8, Color |-> Ptr("#666666")]]

PeriodDefaultsZero ==
    [YearText |-> [Position |-> "", MainAxisOffset |-> 0, CrossAxisOffset |-> 0,
                   TextColor |-> "", Font |-> FontZero, Shape |-> "",
                   FillColor |-> "", BorderColor |-> "", BorderWidth |-> 0],
     Connector |-> [DrawToPeriod |-> Nil, DrawToComment |-> Nil, Width |-> 0,
                    Color |-> "", LineType |-> "", Side |-> "", Dot |-> DotZero],
     CommentText |-> [Position |-> "", MainAxisOffset |-> 0, CrossAxisOffset |-> 0,
                      Font |-> FontZero, TitleFont |-> FontZero, TitleLine |-> TitleLineZero,
                      TitleColor |-> "", Shape |-> "", FillColor |-> "",
                      TextColor |-> "", Padding |-> "", BlockWidth |-> Nil,
                      BorderColor |-> "", BorderWidth |-> 0, BorderStyle |-> "",
                      TextAlign |-> ""],
     CenterlineProjection |-> [Color |-> ""],
     JunctionMarker |-> [Shape |-> "", Size |-> 0, Color |-> Nil]]

TplFull ==
    [CenterLine |-> [Width |-> 4, Type |-> "solid", Orientation |-> "horizontal",
                     Angle |-> Nil, Color |-> "#BDBDBD", RoundedCaps |-> TRUE],
     Layout |-> [Padding |-> 50, EntrySpacing |-> 100, ConnectorLength |-> 40],
     GlobalFont |-> Nil,
     PeriodDefaults |-> PeriodDefaultsFull]

TplZero ==
    [CenterLine |-> [Width |-> 0, Type |-> "", Orientation |-> "vertical",
                     Angle |-> Nil, Color |-> "", RoundedCaps |-> FALSE],
     Layout |-> [Padding |-> 0, EntrySpacing |-> 0, ConnectorLength |-> 0],
     GlobalFont |-> Nil,
     PeriodDefaults |-> PeriodDefaultsZero]

(***************************************************************************)
(* Inputs: entries and their override objects.  An override object is the  *)
(* all-nil object with some of its fields set.                             *)
(***************************************************************************)
StrVals == {"", "ov"}
NumVals == {0, 14}
BoolVals == {FALSE, TRUE}

PatchOne(r, choices) == {[r EXCEPT ![c[1]] = Ptr(c[2])] : c \in choices}

RECURSIVE Patches(_, _, _)
Patches(r, choices, n) ==
    IF n = 0 THEN {r}
    ELSE LET P == Patches(r, choices, n - 1)
         IN P \cup UNION {PatchOne(q, choices) : q \in P}

YearScalarStr == {"Position", "TextColor", "Shape", "FillColor", "BorderColor"}
YearScalarNum == {"MainAxisOffset", "CrossAxisOffset", "BorderWidth"}
YearOvrNil == [Position |-> Nil, MainAxisOffset |-> Nil, CrossAxisOffset |-> Nil,
               Font |-> Nil, TextColor |-> Nil, Shape |-> Nil, FillColor |-> Nil,
               BorderColor |-> Nil, BorderWidth |-> Nil]
YearOverrides ==
    Patches(YearOvrNil, (YearScalarStr \X StrVals) \cup (YearScalarNum \X NumVals),
            MaxOverrideFields)

CommentScalarStr == {"Position", "TitleColor", "Shape", "FillColor", "TextColor",
                     "Padding", "BorderColor", "BorderStyle", "TextAlign"}
CommentScalarNum == {"MainAxisOffset", "CrossAxisOffset", "BlockWidth", "BorderWidth"}
CommentOvrNil == [Position |-> Nil, MainAxisOffset |-> Nil, CrossAxisOffset |-> Nil,
                  Font |-> Nil, TitleFont |-> Nil, TitleLine |-> Nil, TitleColor |-> Nil,
                  Shape |-> Nil, FillColor |-> Nil, TextColor |-> Nil, Padding |-> Nil,
                  BlockWidth |-> Nil, BorderColor |-> Nil, BorderWidth |-> Nil,
                  BorderStyle |-> Nil, TextAlign |-> Nil]
CommentOverrides ==
    Patches(CommentOvrNil,
            (CommentScalarStr \X StrVals) \cup (CommentScalarNum \X NumVals),
            MaxOverrideFields)

TitleLineOvrNil == [Visible |-> Nil, Color |-> Nil, Width |-> Nil, Length |-> Nil, Margin |-> Nil]
TitleLineOverrides ==
    Patches(TitleLineOvrNil,
            ({"Visible"} \X BoolVals) \cup ({"Color"} \X StrVals)
                \cup ({"Width", "Length", "Margin"} \X NumVals),
            MaxOverrideFields)

DotFieldsStr == {"Color", "Shape"}
DotFieldsNum == {"Size", "OffsetMain", "OffsetCross"}
DotFieldsBool == {"Visible", "StopAtDot"}
DotOvrNil == [Size |-> Nil, Color |-> Nil, Shape |-> Nil, Visible |-> Nil,
              OffsetMain |-> Nil, OffsetCross |-> Nil, StopAtDot |-> Nil]
DotOverrides ==
    Patches(DotOvrNil,
            (DotFieldsStr \X StrVals) \cup (DotFieldsNum \X NumVals)
                \cup (DotFieldsBool \X BoolVals),
            MaxOverrideFields)

\* connector_override as a JSON object: it may carry the key "side"
ConnectorScalarStr == {"Color", "LineType"}
ConnectorScalarNum == {"Width"}
ConnectorJSONNil == [Color |-> Nil, LineType |-> Nil, Width |-> Nil, Side |-> Nil,
                     DrawToPeriod |-> Nil, DrawToComment |-> Nil, Dot |-> Nil]
ConnectorJSONOverrides ==
    Patches(ConnectorJSONNil,
            (ConnectorScalarStr \X StrVals) \cup (ConnectorScalarNum \X NumVals)
                \cup ({"DrawToPeriod", "DrawToComment"} \X BoolVals)
                \cup ({"Side"} \X {"top", "right"}),
            MaxOverrideFields)
      \cup {[ConnectorJSONNil EXCEPT !.Dot = Ptr(d)] : d \in DotOverrides}

MarkerOvrNil == [Shape |-> Nil, Size |-> Nil, Color |-> Nil]
MarkerOverrides ==
    Patches(MarkerOvrNil,
            ({"Shape", "Color"} \X StrVals) \cup ({"Size"} \X NumVals),
            MaxOverrideFields)

EntryPlain ==
    [Period |-> "2017", TitleText |-> "TITLE", CommentText |-> "", CommentImage |-> "",
     Link |-> "", EntrySpacingOverride |-> Nil, OrientationOverride |-> Nil,
     AngleOverride |-> Nil, ConnectorOverride |-> Nil, CommentTextOverride |-> Nil,
     YearTextOverride |-> Nil, CenterlineProjectionOverride |-> Nil,
     JunctionMarkerOverride |-> Nil]

EntryBare == [EntryPlain EXCEPT !.TitleText = ""]

StyleEntries ==
    {[EntryPlain EXCEPT !.YearTextOverride = Ptr(o)] : o \in YearOverrides}
    \cup {[EntryPlain EXCEPT !.CommentTextOverride = Ptr(o)] : o \in CommentOverrides}
    \cup {[EntryPlain EXCEPT !.CommentTextOverride = Ptr([CommentOvrNil EXCEPT !.TitleLine = Ptr(o)])] :
             o \in TitleLineOverrides}
    \cup {[EntryPlain EXCEPT !.ConnectorOverride = Ptr(o)] : o \in ConnectorJSONOverrides}
    \cup {[EntryPlain EXCEPT !.JunctionMarkerOverride = Ptr(o)] : o \in MarkerOverrides}
    \cup {[EntryPlain EXCEPT !.CenterlineProjectionOverride = Ptr([Color |-> c])] : c \in StrVals}
    \cup {EntryPlain, EntryBare}

\* Style resolution: one entry, one override object at a time, over a
\* template with every default set and one with every default zero
InitStyle ==
    /\ template \in {TplFull, TplZero}
    /\ dataJSON \in {<<e>> : e \in StyleEntries} \cup {<<>>}
    /\ InitRun

SpecStyle == InitStyle /\ [][Next]_vars

(***************************************************************************)
(* Inputs for the font cascade: the label font over every combination of   *)
(* the three layers, the two comment fonts over the extreme combinations.  *)
(***************************************************************************)
FontFields == {"FontFamily", "FontSize", "FontWeight", "FontStyle"}
FontOvrNil == [FontFamily |-> Nil, FontSize |-> Nil, FontWeight |-> Nil, FontStyle |-> Nil]
FontOverrides ==
    {Nil} \cup {Ptr(o) : o \in Patches(FontOvrNil,
                    ({"FontFamily", "FontWeight", "FontStyle"} \X StrVals)
                        \cup ({"FontSize"} \X NumVals),
                    MaxOverrideFields)}
DefaultFonts == [FontFamily : {"", "Georgia"}, FontSize : {0, 18},
                 FontWeight : {"", "bold"}, FontStyle : {"", "italic"}]
GlobalFonts ==
    {Nil} \cup {Ptr(g) : g \in [FontFamily : {"", "Verdana"}, FontSize : {0, 10},
                                FontWeight : {"", "300"}, FontStyle : {"", "oblique"}]}
FontDefaultFull == [FontFamily |-> "Georgia", FontSize |-> 18,
                    FontWeight |-> "bold", FontStyle |-> "italic"]
FontGlobalFull == [FontFamily |-> "Verdana", FontSize |-> 10,
                   FontWeight |-> "300", FontStyle |-> "oblique"]

InitFont ==
    /\ \/ \E d \in DefaultFonts, g \in GlobalFonts, o \in FontOverrides :
            /\ template = [TplFull EXCEPT !.GlobalFont = g,
                                          !.PeriodDefaults.YearText.Font = d]
            /\ dataJSON = <<[EntryPlain EXCEPT
                               !.YearTextOverride = Ptr([YearOvrNil EXCEPT !.Font = o])]>>
       \/ \E d \in {FontZero, FontDefaultFull},
             g \in {Nil, Ptr(FontZero), Ptr(FontGlobalFull)},
             o \in FontOverrides, which \in {"Font", "TitleFont"} :
            /\ template = [TplFull EXCEPT !.GlobalFont = g,
                                          !.PeriodDefaults.CommentText[which] = d]
            /\ dataJSON = <<[EntryPlain EXCEPT
                               !.CommentTextOverride = Ptr([CommentOvrNil EXCEPT ![which] = o])]>>
       \/ /\ template \in {TplFull, [TplFull EXCEPT !.GlobalFont = Ptr(FontGlobalFull)]}
          /\ dataJSON \in {<<>>, <<EntryPlain>>}
    /\ InitRun

SpecFont == InitFont /\ [][Next]_vars

(***************************************************************************)
(* Inputs for the axis walk: up to MaxEntries entries with their spacing   *)
(* and angle overrides, over both orientations, with and without a global  *)
(* angle, and with a template that leaves entry_spacing unset.             *)
(***************************************************************************)
SeqsUpTo(S, n) == UNION {[1..m -> S] : m \in 0..n}

AxisEntries ==
    {[EntryPlain EXCEPT !.EntrySpacingOverride = sp, !.AngleOverride = an] :
        sp \in {Nil, Ptr(0), Ptr(60)}, an \in {Nil, Ptr(90), Ptr(270)}}

AxisTemplates ==
    {[TplFull EXCEPT !.CenterLine.Orientation = o, !.CenterLine.Angle = a] :
        o \in {"horizontal", "vertical"}, a \in {Nil, Ptr(180)}}
    \cup {[TplFull EXCEPT !.Layout.EntrySpacing = 0]}

InitAxis ==
    /\ template \in AxisTemplates
    /\ dataJSON \in SeqsUpTo(AxisEntries, MaxEntries)
    /\ InitRun

SpecAxis == InitAxis /\ [][Next]_vars

(***************************************************************************)
(* Inputs for the placement side: the template connector's side, the       *)
(* orientation, and one entry of the list with an orientation override     *)
(* and a connector override that may name a side.                          *)
(***************************************************************************)
SideEntries ==
    {[EntryPlain EXCEPT !.OrientationOverride = oo, !.ConnectorOverride = co] :
        oo \in {Nil, Ptr("horizontal"), Ptr("vertical"), Ptr("diagonal")},
        co \in {Nil} \cup {Ptr([ConnectorJSONNil EXCEPT !.Side = sd]) :
                              sd \in {Nil, Ptr("top"), Ptr("bottom"), Ptr("left"), Ptr("right")}}}

SideTemplates ==
    {[TplFull EXCEPT !.CenterLine.Orientation = o, !.PeriodDefaults.Connector.Side = sd] :
        o \in {"horizontal", "vertical"},
        sd \in {"", "top", "bottom", "left", "right", "middle"}}

InitSide ==
    /\ template \in SideTemplates
    /\ dataJSON \in {<<>>} \cup
           {[k \in 1..n |-> IF k = f THEN e ELSE EntryBare] :
               n \in 1..MaxEntries, f \in 1..MaxEntries, e \in SideEntries}
    /\ InitRun

SpecSide == InitSide /\ [][Next]_vars

(***************************************************************************)
(* Properties.                                                             *)
(***************************************************************************)
StylesComputed == pc \in {"phase1", "phase2", "phase3", "assemble", "done"}
AxisComputed == pc \in {"phase2", "phase3", "assemble", "done"}
EntryIndexes == 0..(Len(entries) - 1)

\* the override's value of field f when the override object o has it, else
\* the value of the defaults d
OverrideElseDefault(o, f, d) ==
    IF o # Nil /\ o[1][f] # Nil THEN o[1][f][1] ELSE d[f]

\* the same for a field that is a pointer in both layers
OverrideElseDefaultPtr(o, f, d) ==
    IF o # Nil /\ o[1][f] # Nil THEN o[1][f] ELSE d[f]

\* C1: every scalar style field of the label, the comment block, the
\* connector and the junction marker resolves to the entry override's value
\* when the override specifies the field (an explicit 0, false or "" too),
\* and to the template period_defaults value when the override object is
\* absent or omits the field.
C1_ScalarFieldsOverrideElseDefault ==
    StylesComputed =>
        \A k \in EntryIndexes :
            LET e == At(entries, k)
                pd == template.PeriodDefaults
            IN /\ \A f \in YearScalarStr \cup YearScalarNum :
                      At(timelineData.yearStyles, k)[f]
                          = OverrideElseDefault(e.YearTextOverride, f, pd.YearText)
               /\ \A f \in (CommentScalarStr \cup CommentScalarNum) \ {"BlockWidth"} :
                      At(timelineData.commentStyles, k)[f]
                          = OverrideElseDefault(e.CommentTextOverride, f, pd.CommentText)
               /\ At(timelineData.commentStyles, k).BlockWidth
                      = OverrideElseDefaultPtr(e.CommentTextOverride, "BlockWidth", pd.CommentText)
               /\ \A f \in ConnectorScalarStr \cup ConnectorScalarNum :
                      At(timelineData.connectorStyles, k)[f]
                          = OverrideElseDefault(e.ConnectorOverride, f, pd.Connector)
               /\ \A f \in {"Shape", "Size"} :
                      At(timelineData.markerStyles, k)[f]
                          = OverrideElseDefault(e.JunctionMarkerOverride, f, pd.JunctionMarker)
               /\ At(timelineData.markerStyles, k).Color
                      = OverrideElseDefaultPtr(e.JunctionMarkerOverride, "Color", pd.JunctionMarker)

\* C1 witness: a label override sets shape to "" over a non-empty default and
\* omits position; the effective shape is "" and the position the default's.
C1_Witness ==
    /\ StylesComputed
    /\ \E k \in EntryIndexes :
        LET o == At(entries, k).YearTextOverride
        IN /\ o # Nil
           /\ o[1].Shape = Ptr("")
           /\ o[1].Position = Nil
           /\ template.PeriodDefaults.YearText.Shape # ""
           /\ template.PeriodDefaults.YearText.Position # ""
           /\ At(timelineData.yearStyles, k).Shape = ""
           /\ At(timelineData.yearStyles, k).Position = template.PeriodDefaults.YearText.Position

FontZeroOf(f) == IF f = "FontSize" THEN 0 ELSE ""
FontFallbackOf(f) ==
    IF f = "FontFamily" THEN "Arial, sans-serif"
    ELSE IF f = "FontSize" THEN 12
    ELSE "normal"

\* the cascade of the claim: override, template default, global font, fallback
FontCascade(o, d, g, f) ==
    IF o # Nil /\ o[1][f] # Nil THEN o[1][f][1]
    ELSE IF d[f] # FontZeroOf(f) THEN d[f]
    ELSE IF g # Nil /\ g[1][f] # FontZeroOf(f) THEN g[1][f]
    ELSE FontFallbackOf(f)

\* the cascade as amended: an explicitly empty family becomes "sans-serif"
FontCascadeAmended(o, d, g, f) ==
    IF f = "FontFamily" /\ o # Nil /\ o[1][f] = Ptr("") THEN "sans-serif"
    ELSE FontCascade(o, d, g, f)

FontOverrideOf(o, which) == IF o = Nil THEN Nil ELSE o[1][which]

C3_DotFieldByField ==
    StylesComputed =>
        \A k \in EntryIndexes :
            LET o == At(entries, k).ConnectorOverride
            IN (o # Nil /\ o[1].Dot # Nil) =>
                   \A f \in DotFieldsStr \cup DotFieldsNum \cup DotFieldsBool :
                       At(timelineData.connectorStyles, k).Dot[f]
                           = OverrideElseDefault(o[1].Dot, f, template.PeriodDefaults.Connector.Dot)

\* the resolved spacing of an entry as the documents state it: the override
\* when present and > 0, else the template's spacing (150 when unset)
DocumentedDefaultSpacing ==
    IF template.Layout.EntrySpacing > 0 THEN template.Layout.EntrySpacing ELSE 150
DocumentedSpacing(e) ==
    IF e.EntrySpacingOverride # Nil /\ e.EntrySpacingOverride[1] > 0
    THEN e.EntrySpacingOverride[1]
    ELSE DocumentedDefaultSpacing

RECURSIVE SpacingBefore(_)
SpacingBefore(k) ==
    IF k = 0 THEN 0 ELSE SpacingBefore(k - 1) + DocumentedSpacing(At(entries, k - 1))

\* distance between two points that lie on one axis-parallel line
Distance(p, q) == Abs(q.X - p.X) + Abs(q.Y - p.Y)

\* offset of the anchor of entry k along the axis, from the start of the axis
RECURSIVE AnchorOffset(_)
AnchorOffset(k) ==
    IF k = 0 THEN Distance(AxisPoint(0, 0), At(entryAxisPoints, 0))
    ELSE AnchorOffset(k - 1) + Distance(At(entryAxisPoints, k - 1), At(entryAxisPoints, k))

\* the axis segment drawn between entry k and entry k+1
SegmentBetween(k) == At(svgSegments, k + 1)
SegmentStart(seg) == AxisPoint(seg.X1, seg.Y1)
SegmentEnd(seg) == AxisPoint(seg.X2, seg.Y2)

\* C4: the axis anchor of entry k, where its marker is drawn and its
\* connectors start, is the midpoint of its spacing interval: its offset
\* along the axis is the sum of the resolved spacings of entries 0..k-1 plus
\* half of entry k's resolved spacing (50, 150, 250 for three entries with
\* entry_spacing 100).
C4_AnchorAtMidpoint ==
    pc = "done" =>
        \A k \in EntryIndexes :
            /\ At(placements, k).markerCenter = At(entryAxisPoints, k)
            /\ AnchorOffset(k) = SpacingBefore(k) + DocumentedSpacing(At(entries, k)) \div 2

\* C5 (as claimed): the axis segment drawn between consecutive entries k and
\* k+1 has the length of the resolved spacing of entry k+1.
C5_SegmentLength_AsClaimed ==
    pc = "done" =>
        \A k \in EntryIndexes :
            k + 1 < Len(entries) =>
                Distance(SegmentStart(SegmentBetween(k)), SegmentEnd(SegmentBetween(k)))
                    = DocumentedSpacing(At(entries, k + 1))

\* C5 (amended): the axis segment drawn between consecutive entries k and
\* k+1 runs from the anchor of entry k to the anchor of entry k+1 and has the
\* length of the resolved spacing of entry k, the entry before the segment.
C5_SegmentLength ==
    pc = "done" =>
        \A k \in EntryIndexes :
            k + 1 < Len(entries) =>
                /\ SegmentStart(SegmentBetween(k)) = At(entryAxisPoints, k)
                /\ SegmentEnd(SegmentBetween(k)) = At(entryAxisPoints, k + 1)
                /\ Distance(SegmentStart(SegmentBetween(k)), SegmentEnd(SegmentBetween(k)))
                       = DocumentedSpacing(At(entries, k))

\* C5 witness: a finished run in which an entry with a non-positive override
\* follows an entry with override 60, so the two resolved spacings differ.
C5_Witness ==
    /\ pc = "done"
    /\ \E k \in EntryIndexes :
        /\ k + 1 < Len(entries)
        /\ At(entries, k).EntrySpacingOverride = Ptr(60)
        /\ At(entries, k + 1).EntrySpacingOverride = Ptr(0)
        /\ Distance(SegmentStart(SegmentBetween(k)), SegmentEnd(SegmentBetween(k))) = 60

\* C6: for every entry k with a successor the distance along the axis from
\* the anchor of entry k to the anchor of entry k+1 is entry k's spacing
\* override (when > 0) and layout.entry_spacing without one; and changing
\* the resolved spacing of any entry changes the drawn geometry.
C6_SpacingAfterEntry ==
    pc = "done" =>
        /\ \A k \in EntryIndexes :
               k + 1 < Len(entries) =>
                   Distance(At(entryAxisPoints, k), At(entryAxisPoints, k + 1))
                       = DocumentedSpacing(At(entries, k))
        /\ \A k \in EntryIndexes : \A v \in {Nil, Ptr(0), Ptr(60)} :
               LET other == [entries EXCEPT ![k + 1].EntrySpacingOverride = v]
               IN DocumentedSpacing(At(other, k)) # DocumentedSpacing(At(entries, k)) =>
                      axisGeometry(other, template)
                          # [entryAxisPoints |-> entryAxisPoints,
                             segmentStartPoints |-> segmentStartPoints,
                             segmentEndPoints |-> segmentEndPoints]

\* C7: the axis segment drawn from the anchor of entry k to the anchor of
\* entry k+1 has the direction of entry k's angle_override when entry k has
\* one.
C7_AngleOfSegmentToNext ==
    pc = "done" =>
        \A k \in EntryIndexes :
            (k + 1 < Len(entries) /\ At(entries, k).AngleOverride # Nil) =>
                LET seg == SegmentBetween(k)
                    a == At(entries, k).AngleOverride[1]
                    len == Distance(SegmentStart(seg), SegmentEnd(seg))
                IN /\ seg.X2 - seg.X1 = len * CosDeg(a)
                   /\ seg.Y2 - seg.Y1 = len * SinDeg(a)

\* the angle and the length of the segment leading to entry k
SegmentAngle(k) ==
    IF At(entries, k).AngleOverride # Nil THEN At(entries, k).AngleOverride[1]
    ELSE IF template.CenterLine.Angle # Nil THEN template.CenterLine.Angle[1]
    ELSE IF template.CenterLine.Orientation = "vertical" THEN 90
    ELSE 0
SegmentLengthTo(k) ==
    IF k = 0 THEN At(timelineData.junctionPoints, 0)
    ELSE At(timelineData.junctionPoints, k) - At(timelineData.junctionPoints, k - 1)

\* C8: every axis segment uses the entry-level angle override if present,
\* else the template's center_line.angle if present, else 0 degrees for a
\* horizontal and 90 degrees for a vertical template; it ends at
\* start + length*(cos angle, sin angle), and starts where the preceding
\* segment ends (the first one at the origin).
C8_AxisPolyline ==
    AxisComputed =>
        \A k \in EntryIndexes :
            LET start == At(segmentStartPoints, k)
                end == At(segmentEndPoints, k)
            IN /\ end.X = start.X + SegmentLengthTo(k) * CosDeg(SegmentAngle(k))
               /\ end.Y = start.Y + SegmentLengthTo(k) * SinDeg(SegmentAngle(k))
               /\ start = IF k = 0 THEN AxisPoint(0, 0) ELSE At(segmentEndPoints, k - 1)

\* C8 witness: with a global angle of 180 degrees, a segment that follows
\* its entry's override of 90 degrees and a later one that follows the
\* global angle, both of positive length.
C8_Witness ==
    /\ AxisComputed
    /\ template.CenterLine.Angle = Ptr(180)
    /\ \E k \in EntryIndexes :
        /\ k >= 1
        /\ k + 1 < Len(entries)
        /\ At(entries, k).AngleOverride = Ptr(90)
        /\ At(entries, k + 1).AngleOverride = Nil
        /\ At(segmentEndPoints, k).Y > At(segmentStartPoints, k).Y
        /\ At(segmentEndPoints, k + 1).X < At(segmentStartPoints, k + 1).X
        /\ At(segmentStartPoints, k + 1) = At(segmentEndPoints, k)

\* the orientation that applies to entry k, and the side a name stands for
EntryIsHorizontal(k) ==
    IF At(entries, k).OrientationOverride = Ptr("horizontal") THEN TRUE
    ELSE IF At(entries, k).OrientationOverride = Ptr("vertical") THEN FALSE
    ELSE template.CenterLine.Orientation = "horizontal"
SideIsValid(side, horizontal) ==
    IF horizontal THEN side \in {"top", "bottom"} ELSE side \in {"left", "right"}
SideDir(side) == IF side \in {"top", "left"} THEN -1 ELSE 1

\* the cross-axis coordinate of a point relative to the anchor of entry k
CrossCoordinate(point, k) ==
    IF EntryIsHorizontal(k) THEN point.Y - At(entryAxisPoints, k).Y
    ELSE point.X - At(entryAxisPoints, k).X
Sign(x) == IF x < 0 THEN -1 ELSE IF x > 0 THEN 1 ELSE 0

\* C9: for every drawn entry the label and the comment lie on opposite
\* cross-axis sides (directions -1 and +1); without a connector side an
\* even index puts the label on the negative and the comment on the
\* positive side, an odd index the reverse; with a side that is valid for
\* the entry's effective orientation the comment lies on the named side and
\* the label on the other one, whatever the index.
C9_OppositeSides ==
    \A n \in 1..Len(placements) :
        LET p == placements[n]
            k == p.index
            side == At(timelineData.connectorStyles, k).Side
        IN /\ p.commentCrossAxisDir \in {-1, 1}
           /\ p.yearCrossAxisDir = -p.commentCrossAxisDir
           /\ Sign(CrossCoordinate(p.yearCenter, k)) = p.yearCrossAxisDir
           /\ p.commentAnchor # Nil =>
                  Sign(CrossCoordinate(p.commentAnchor[1], k)) = p.commentCrossAxisDir
           /\ side = "" =>
                  p.commentCrossAxisDir = (IF k % 2 = 0 THEN 1 ELSE -1)
           /\ (side # "" /\ SideIsValid(side, EntryIsHorizontal(k))) =>
                  p.commentCrossAxisDir = SideDir(side)

\* C9 witness: an entry with an odd index drawn with the connector side
\* 'right' under an orientation override to vertical in a horizontal
\* template: the comment is on the positive side, against the alternation.
C9_Witness ==
    \E n \in 1..Len(placements) :
        LET p == placements[n]
        IN /\ p.index % 2 = 1
           /\ template.CenterLine.Orientation = "horizontal"
           /\ At(entries, p.index).OrientationOverride = Ptr("vertical")
           /\ At(timelineData.connectorStyles, p.index).Side = "right"
           /\ p.commentCrossAxisDir = 1
           /\ p.yearCrossAxisDir = -1

\* C10: a side named in an entry's connector_override decides the sides of
\* that entry: when it is valid for the entry's effective orientation the
\* comment lies on the named side and the label on the opposite one,
\* whatever the template connector's side and the index are.
C10_OverrideSide ==
    \A n \in 1..Len(placements) :
        LET p == placements[n]
            k == p.index
            j == At(dataJSON, k).ConnectorOverride
        IN (j # Nil /\ j[1].Side # Nil /\ SideIsValid(j[1].Side[1], EntryIsHorizontal(k))) =>
               /\ p.commentCrossAxisDir = SideDir(j[1].Side[1])
               /\ p.yearCrossAxisDir = -SideDir(j[1].Side[1])

(***************************************************************************)
(* Inputs for the connector routing: both orientations, a label straight   *)
(* above its axis point, further out, or 30 along the axis (a 30-40-50     *)
(* connector), a comment block nearer or further out, and a dot with and   *)
(* without offsets along and across the connector.  Font size 10 keeps     *)
(* every estimated text size whole.                                        *)
(***************************************************************************)
ConnectorTemplates ==
    {[TplFull EXCEPT !.CenterLine.Orientation = o,
                     !.GlobalFont = Ptr(FontGlobalFull),
                     !.PeriodDefaults.YearText.MainAxisOffset = yo[1],
                     !.PeriodDefaults.YearText.CrossAxisOffset = yo[2],
                     !.PeriodDefaults.CommentText.MainAxisOffset = 0,
                     !.PeriodDefaults.CommentText.CrossAxisOffset = cc,
                     !.PeriodDefaults.Connector.DrawToComment = Nil,
                     !.PeriodDefaults.Connector.Dot.OffsetMain = om,
                     !.PeriodDefaults.Connector.Dot.OffsetCross = oc,
                     !.PeriodDefaults.Connector.Dot.StopAtDot = stop] :
        o \in {"horizontal", "vertical"},
        yo \in {<<0, 0>>, <<0, 10>>, <<30, 0>>},
        cc \in {0, 10},
        om \in {0, 40, 50},
        oc \in {0, 5},
        stop \in BOOLEAN}

InitConnector ==
    /\ template \in ConnectorTemplates
    /\ dataJSON \in {<<>>, <<EntryPlain>>, <<EntryBare>>, <<EntryBare, EntryPlain>>}
    /\ InitRun

SpecConnector == InitConnector /\ [][Next]_vars

(***************************************************************************)
(* C11, C12: the line segments of a connector.                             *)
(***************************************************************************)
\* the connectors drawn for the k-th placed entry: to its label, to its comment
ConnectorsOf(k) ==
    {c[1] : c \in {placements[k].yearConnector, placements[k].commentConnector} \ {Nil}}

DrawnConnectors == UNION {ConnectorsOf(k) : k \in 1..Len(placements)}

\* the end points of the line segments written for a connector, in order
SegmentsOf(c) ==
    LET lines == SelectSeq(c.written, LAMBDA e : e.kind = "line")
    IN [n \in 1..Len(lines) |-> <<lines[n].x1, lines[n].y1, lines[n].x2, lines[n].y2>>]

DotPosition(p) ==
    calculateConnectorDotPosition(p.X2, p.Y2,
        calculateConnectorVectors(p.X1, p.Y1, p.X2, p.Y2), p.Style.Dot)

StopsAtDot(p) == p.LineIsVisible /\ p.Style.Dot.StopAtDot

HasCrossOffset(p) ==
    Abs(p.Style.Dot.OffsetCross) * 1000 >= 1 \/ Abs(p.ElementCrossOffset) * 1000 >= 1

Elbow(p) ==
    IF p.IsHorizontal THEN AxisPoint(p.X1, DotPosition(p).Y)
    ELSE AxisPoint(DotPosition(p).X, p.Y1)

\* C11: a visible connector that stops at its dot, with a cross offset of
\* the dot or of the element of magnitude >= 0.001, is drawn as exactly two
\* segments, element anchor -> elbow and elbow -> dot; the elbow has the
\* element's x and the dot's y when the entry is horizontal, the dot's x
\* and the element's y when it is vertical.
C11_Dogleg ==
    \A c \in DrawnConnectors :
        LET p == c.params
            dot == DotPosition(p)
            elbow == Elbow(p)
        IN (StopsAtDot(p) /\ HasCrossOffset(p)) =>
               SegmentsOf(c) = << <<p.X1, p.Y1, elbow.X, elbow.Y>>,
                                  <<elbow.X, elbow.Y, dot.X, dot.Y>> >>

\* a finished run with a label connector whose dot is 5 across: two
\* segments, the elbow away from both the label and the dot
C11_Witness ==
    /\ pc = "done"
    /\ \E k \in 1..Len(placements) :
          /\ placements[k].yearConnector # Nil
          /\ LET c == placements[k].yearConnector[1]
                 p == c.params
             IN /\ StopsAtDot(p)
                /\ p.Style.Dot.OffsetCross = 5
                /\ p.ElementCrossOffset = 0
                /\ AxisPoint(p.X1, p.Y1) = placements[k].yearCenter
                /\ Len(SegmentsOf(c)) = 2
                /\ Elbow(p) # AxisPoint(p.X1, p.Y1)
                /\ Elbow(p) # DotPosition(p)

Coincide(a, b) == Abs(a.X - b.X) * 1000 < 1 /\ Abs(a.Y - b.Y) * 1000 < 1

\* C12: a visible connector that stops at its dot, with both the dot's and
\* the element's cross offset below 0.001 in magnitude, is drawn as exactly
\* one segment from the element anchor to the dot position, or to the axis
\* anchor when the dot position coincides with the element anchor.
C12_StraightToDotOrAxis ==
    \A c \in DrawnConnectors :
        LET p == c.params
            dot == DotPosition(p)
            end == IF Coincide(dot, AxisPoint(p.X1, p.Y1)) THEN AxisPoint(p.X2, p.Y2)
                   ELSE dot
        IN (StopsAtDot(p) /\ ~HasCrossOffset(p)) =>
               SegmentsOf(c) = << <<p.X1, p.Y1, end.X, end.Y>> >>

\* a finished run with a label connector whose dot lies on the label's
\* anchor, away from the axis anchor: the one segment runs to the axis anchor
C12_Witness ==
    /\ pc = "done"
    /\ \E k \in 1..Len(placements) :
          /\ placements[k].yearConnector # Nil
          /\ LET c == placements[k].yearConnector[1]
                 p == c.params
             IN /\ StopsAtDot(p)
                /\ ~HasCrossOffset(p)
                /\ AxisPoint(p.X1, p.Y1) = placements[k].yearCenter
                /\ AxisPoint(p.X2, p.Y2) = placements[k].markerCenter
                /\ DotPosition(p) = placements[k].yearCenter
                /\ placements[k].yearCenter # placements[k].markerCenter
                /\ SegmentsOf(c) = << <<p.X1, p.Y1, p.X2, p.Y2>> >>

(***************************************************************************)
(* Inputs for the title line: every combination of the template's          *)
(* title_line visible / width / length, and an entry without comment       *)
(* override, with one that has no title_line, and with title_line          *)
(* overrides.                                                              *)
(***************************************************************************)
TitleLineTemplates ==
    {[TplFull EXCEPT !.PeriodDefaults.CommentText.TitleLine =
                         [TitleLineFull EXCEPT !.Visible = v, !.Width = w, !.Length = l]] :
        v \in BOOLEAN, w \in {0, 1}, l \in {0, 30}}

TitleLineEntries ==
    {EntryPlain, [EntryPlain EXCEPT !.CommentTextOverride = Ptr(CommentOvrNil)]}
    \cup {[EntryPlain EXCEPT !.CommentTextOverride =
                                 Ptr([CommentOvrNil EXCEPT !.TitleLine = Ptr(o)])] :
             o \in TitleLineOverrides}

InitTitleLine ==
    /\ template \in TitleLineTemplates
    /\ dataJSON \in {<<>>} \cup {<<e>> : e \in TitleLineEntries}
    /\ InitRun

SpecTitleLine == InitTitleLine /\ [][Next]_vars

\* the title_line override of entry k, Nil when it has none
TitleLineOverrideOf(k) ==
    LET o == At(entries, k).CommentTextOverride
    IN IF o = Nil THEN Nil ELSE o[1].TitleLine

\* C13: when the entry's override does not set the title line's 'visible'
\* (no override, or one without 'visible'), the effective title line is
\* visible if and only if its resolved width and its resolved length are
\* both positive.
C13_TitleLineVisibleIffPositive ==
    StylesComputed =>
        \A k \in EntryIndexes :
            LET o == TitleLineOverrideOf(k)
                effective == At(timelineData.commentStyles, k).TitleLine
            IN (o = Nil \/ o[1].Visible = Nil) =>
                   (effective.Visible <=> (effective.Width > 0 /\ effective.Length > 0))

(***************************************************************************)
(* Inputs for the draw flags: the template connector's draw_to_period and  *)
(* draw_to_comment unset, true and false, and an entry with and without a  *)
(* comment, without connector override or with one in which each flag is   *)
(* unset, true or false.                                                   *)
(***************************************************************************)
FlagVals == {Nil, Ptr(TRUE), Ptr(FALSE)}

FlagTemplates ==
    {[TplFull EXCEPT !.PeriodDefaults.Connector.DrawToPeriod = a,
                     !.PeriodDefaults.Connector.DrawToComment = b] :
        a \in FlagVals, b \in FlagVals}

FlagEntries ==
    {[e EXCEPT !.ConnectorOverride = co] :
        e \in {EntryPlain, EntryBare},
        co \in {Nil} \cup {Ptr([ConnectorJSONNil EXCEPT !.DrawToPeriod = a,
                                                        !.DrawToComment = b]) :
                              a \in FlagVals, b \in FlagVals}}

InitFlags ==
    /\ template \in FlagTemplates
    /\ dataJSON \in {<<>>} \cup {<<e>> : e \in FlagEntries}
    /\ InitRun

SpecFlags == InitFlags /\ [][Next]_vars

(***************************************************************************)
(* C14: the draw flags of the connector.                                   *)
(***************************************************************************)
\* the flag as drawTimelineEntry reads it from the entry's effective style
ResolvedFlag(k, flag) ==
    LET p == At(timelineData.connectorStyles, k)[flag]
    IN p = Nil \/ p[1]

\* override's value, else the template default's value, else true
ThreeWayFlag(k, flag) ==
    LET o == At(entries, k).ConnectorOverride
        d == template.PeriodDefaults.Connector[flag]
    IN IF o # Nil /\ o[1][flag] # Nil THEN o[1][flag][1]
       ELSE IF d # Nil THEN d[1]
       ELSE TRUE

LineDrawn(c) == c # Nil /\ Len(SegmentsOf(c[1])) > 0

\* C14: the resolved draw_to_period and draw_to_comment are the entry
\* override's value if it specifies the flag, else the template default's
\* value if it specifies it, else true; the line to the label (to the
\* comment, for an entry that has one) is drawn exactly when the resolved
\* flag is true, so it is drawn when neither layer specifies the flag.
C14_DrawFlagsThreeWay ==
    /\ StylesComputed =>
          \A k \in EntryIndexes : \A flag \in {"DrawToPeriod", "DrawToComment"} :
              ResolvedFlag(k, flag) = ThreeWayFlag(k, flag)
    /\ \A n \in 1..Len(placements) :
          /\ LineDrawn(placements[n].yearConnector) <=> ThreeWayFlag(n - 1, "DrawToPeriod")
          /\ placements[n].hasComment =>
                (LineDrawn(placements[n].commentConnector)
                     <=> ThreeWayFlag(n - 1, "DrawToComment"))

\* a finished run of an entry with a comment whose connector override sets
\* neither flag, over a template that sets neither: both lines are drawn
C14_Witness ==
    /\ pc = "done"
    /\ Len(placements) = 1
    /\ template.PeriodDefaults.Connector.DrawToPeriod = Nil
    /\ template.PeriodDefaults.Connector.DrawToComment = Nil
    /\ At(entries, 0).ConnectorOverride = Ptr([k \in DOMAIN ConnectorJSONNil \ {"Side"} |-> Nil])
    /\ placements[1].hasComment
    /\ LineDrawn(placements[1].yearConnector)
    /\ LineDrawn(placements[1].commentConnector)

(***************************************************************************)
(* The bounds on their own: a bounds value of its own (the zero value)     *)
(* receives up to MaxCalls updatePoint and updateRect calls; call holds    *)
(* the last call, with the bounds before it.                               *)
(***************************************************************************)
Coordinates == {-3, 0, 4}
Extents == {-1, 0, 2}

InitBounds ==
    /\ template = TplFull
    /\ dataJSON = <<>>
    /\ InitGenerate
    /\ pc = "bounds"
    /\ files = {}
    /\ call = Nil
    /\ mainRun = Nil

\* b.updatePoint(x, y)
BoundsUpdatePoint ==
    /\ pc = "bounds"
    /\ i < MaxCalls
    /\ \E x \in Coordinates, y \in Coordinates :
          /\ timelineBounds' = updatePoint(timelineBounds, x, y)
          /\ call' = Ptr([fn |-> "updatePoint", x |-> x, y |-> y, width |-> 0, height |-> 0,
                          before |-> timelineBounds])
    /\ i' = i + 1
    /\ UNCHANGED <<template, dataJSON, entries, pc, layoutConfig, timelineData,
                   current, entryAxisPoints, segmentStartPoints, segmentEndPoints,
                   initialSeg, svgSegments, placements, result,
                   svgBody, files, mainRun, history>>

\* b.updateRect(x, y, width, height)
BoundsUpdateRect ==
    /\ pc = "bounds"
    /\ i < MaxCalls
    /\ \E x \in Coordinates, y \in Coordinates, width \in Extents, height \in Extents :
          /\ timelineBounds' = updateRect(timelineBounds, x, y, width, height)
          /\ call' = Ptr([fn |-> "updateRect", x |-> x, y |-> y,
                          width |-> width, height |-> height,
                          before |-> timelineBounds])
    /\ i' = i + 1
    /\ UNCHANGED <<template, dataJSON, entries, pc, layoutConfig, timelineData,
                   current, entryAxisPoints, segmentStartPoints, segmentEndPoints,
                   initialSeg, svgSegments, placements, result,
                   svgBody, files, mainRun, history>>

NextBounds ==
    \/ BoundsUpdatePoint
    \/ BoundsUpdateRect

SpecBounds == InitBounds /\ [][NextBounds]_vars

\* C15: once the bounds are set, a further updatePoint or updateRect leaves
\* minX and minY no larger and maxX and maxY no smaller; minX <= maxX and
\* minY <= maxY always; the first update sets the rectangle to exactly the
\* recorded point (the recorded rectangle, for an updateRect); an updateRect
\* with non-positive width or height leaves the bounds unchanged.
C15_BoundsNeverShrink ==
    /\ timelineBounds.minX <= timelineBounds.maxX
    /\ timelineBounds.minY <= timelineBounds.maxY
    /\ call # Nil =>
          LET c == call[1]
              was == c.before
              now == timelineBounds
              noRect == c.fn = "updateRect" /\ (c.width <= 0 \/ c.height <= 0)
          IN /\ was.isSet =>
                   /\ now.isSet
                   /\ now.minX <= was.minX /\ now.maxX >= was.maxX
                   /\ now.minY <= was.minY /\ now.maxY >= was.maxY
             /\ (~was.isSet /\ c.fn = "updatePoint") =>
                   now = [minX |-> c.x, maxX |-> c.x, minY |-> c.y, maxY |-> c.y,
                          isSet |-> TRUE]
             /\ (~was.isSet /\ c.fn = "updateRect" /\ ~noRect) =>
                   now = [minX |-> c.x, maxX |-> c.x + c.width,
                          minY |-> c.y, maxY |-> c.y + c.height, isSet |-> TRUE]
             /\ noRect => now = was

\* set bounds that a later updateRect has widened to the right and downwards
\* while their left and top edges stayed
C15_Witness ==
    /\ call # Nil
    /\ call[1].before.isSet
    /\ timelineBounds.maxX > call[1].before.maxX
    /\ timelineBounds.maxY > call[1].before.maxY
    /\ timelineBounds.minX = call[1].before.minX
    /\ timelineBounds.minY = call[1].before.minY
    /\ call[1].fn = "updateRect"

(***************************************************************************)
(* Inputs for the canvas: both orientations, layout.padding unset, small   *)
(* and large, a long and a short entry spacing, the label line and the     *)
(* junction marker drawn or not, and entries with a label and a comment,   *)
(* with a label only, and with neither.                                    *)
(***************************************************************************)
EntryBlank == [EntryBare EXCEPT !.Period = ""]

CanvasTemplates ==
    {[TplFull EXCEPT !.CenterLine.Orientation = o,
                     !.GlobalFont = Ptr(FontGlobalFull),
                     !.Layout.Padding = pad,
                     !.Layout.EntrySpacing = sp,
                     !.PeriodDefaults.Connector.DrawToPeriod = Ptr(dp),
                     !.PeriodDefaults.JunctionMarker.Shape = ms] :
        o \in {"horizontal", "vertical"},
        pad \in {0, 2, 50},
        sp \in {100, 3},
        dp \in BOOLEAN,
        ms \in {"diamond", "none"}}

InitCanvas ==
    /\ template \in CanvasTemplates
    /\ dataJSON \in {<<>>} \cup {<<e>> : e \in {EntryPlain, EntryBare, EntryBlank}}
                     \cup {<<EntryBlank, e>> : e \in {EntryPlain, EntryBlank}}
    /\ InitRun

SpecCanvas == InitCanvas /\ [][Next]_vars

(***************************************************************************)
(* C16: the canvas.                                                        *)
(***************************************************************************)
\* layout.padding, 50 when it is <= 0
DocumentedPadding == IF template.Layout.Padding <= 0 THEN 50 ELSE template.Layout.Padding

ExtentX == timelineBounds.maxX - timelineBounds.minX
ExtentY == timelineBounds.maxY - timelineBounds.minY

\* the end points of the axis and connector lines in the body: each of them
\* was recorded in the bounds
RecordedPoints ==
    UNION {{AxisPoint(svgBody[n].x1, svgBody[n].y1), AxisPoint(svgBody[n].x2, svgBody[n].y2)} :
              n \in {m \in 1..Len(svgBody) : svgBody[m].kind = "line"
                                             /\ svgBody[m].of \in {"axis", "connector"}}}
      \cup {AxisPoint(0, 0)}

\* the point lies at distance >= padding from each edge of the canvas
InsidePadding(doc, point) ==
    /\ point.X + doc.offsetX >= DocumentedPadding
    /\ point.X + doc.offsetX <= doc.width - DocumentedPadding
    /\ point.Y + doc.offsetY >= DocumentedPadding
    /\ point.Y + doc.offsetY <= doc.height - DocumentedPadding

CanvasTranslation(doc) ==
    /\ doc.offsetX = DocumentedPadding - timelineBounds.minX
    /\ doc.offsetY = DocumentedPadding - timelineBounds.minY
    /\ \A point \in RecordedPoints : InsidePadding(doc, point)

\* the fixed size is what an assembly without any recorded point produces,
\* and a finished GenerateSVG run has recorded a point
FallbackOnlyWhenUnset ==
    /\ timelineBounds.isSet
    /\ LET unset == assembleFinalSVG(<<>>, NoBounds, DocumentedPadding, template.GlobalFont)
       IN unset.width = 600 + 2 * DocumentedPadding
          /\ unset.height = 100 + 2 * DocumentedPadding

\* C16 as claimed: the canvas is (maxX - minX) + 2*padding wide and
\* (maxY - minY) + 2*padding high, the content is translated by
\* (padding - minX, padding - minY) so that every recorded point lies at
\* distance >= padding from each edge, and the fixed fallback size is used
\* only when no point was recorded, which a run with an entry never does.
C16_Canvas_AsClaimed ==
    pc = "done" =>
        LET doc == result[1].svg
        IN /\ doc.width = ExtentX + 2 * DocumentedPadding
           /\ doc.height = ExtentY + 2 * DocumentedPadding
           /\ CanvasTranslation(doc)
           /\ FallbackOnlyWhenUnset

\* C16, amended: the width and the height are each at least 10: the canvas
\* is max((maxX - minX) + 2*padding, 10) wide and
\* max((maxY - minY) + 2*padding, 10) high; the rest as claimed.
C16_Canvas ==
    pc = "done" =>
        LET doc == result[1].svg
        IN /\ doc.width = Max(ExtentX + 2 * DocumentedPadding, 10)
           /\ doc.height = Max(ExtentY + 2 * DocumentedPadding, 10)
           /\ CanvasTranslation(doc)
           /\ FallbackOnlyWhenUnset

\* a finished run with padding 2 whose content has no height (or no
\* width): that side of the canvas is 10, more than extent plus padding
C16_Witness ==
    /\ pc = "done"
    /\ DocumentedPadding = 2
    /\ ExtentX > 0 \/ ExtentY > 0
    /\ \/ result[1].svg.height = 10 /\ ExtentY + 2 * DocumentedPadding < 10
       \/ result[1].svg.width = 10 /\ ExtentX + 2 * DocumentedPadding < 10
    /\ svgBody = result[1].svg.body

(***************************************************************************)
(* generateHTML.  The document is kept as what it is built from: the font  *)
(* of the body rule, the center line rule, the size of the container and   *)
(* one year element and at most one comment element per entry, with the    *)
(* values that the format strings are given.                               *)
(***************************************************************************)
getCrossAxisDirection(position, index, isHorizontal) ==
    IF position = "end" THEN 1
    ELSE IF position = "alternate-start-end" THEN (IF index % 2 = 0 THEN -1 ELSE 1)
    ELSE IF position = "alternate-end-start" THEN (IF index % 2 # 0 THEN -1 ELSE 1)
    ELSE -1

\* generateHTML: the spacing of an entry, the template's when the override
\* is absent or not positive
htmlSpacing(tpl, entry) ==
    IF entry.EntrySpacingOverride # Nil /\ entry.EntrySpacingOverride[1] > 0
    THEN entry.EntrySpacingOverride[1]
    ELSE tpl.Layout.EntrySpacing

\* the target of an element: along the axis the center of the entry, across
\* it the connector length on the side of dir, from the middle of the
\* container when horizontal and from the center line when vertical
htmlTarget(tpl, entryCenterPos, dir, containerHeight) ==
    IF tpl.CenterLine.Orientation = "horizontal"
    THEN AxisPoint(entryCenterPos, containerHeight \div 2 + dir * tpl.Layout.ConnectorLength)
    ELSE AxisPoint(dir * tpl.Layout.ConnectorLength, entryCenterPos)

htmlYearElement(tpl, index, entry, yearStyle, entryCenterPos, containerHeight) ==
    [kind |-> "year-text",
     target |-> htmlTarget(tpl, entryCenterPos,
                           getCrossAxisDirection(yearStyle.Position, index,
                                                 tpl.CenterLine.Orientation = "horizontal"),
                           containerHeight),
     dir |-> getCrossAxisDirection(yearStyle.Position, index,
                                   tpl.CenterLine.Orientation = "horizontal"),
     color |-> IF yearStyle.TextColor = "" THEN "inherit" ELSE yearStyle.TextColor,
     font |-> yearStyle.Font,
     text |-> entry.Period,
     link |-> entry.Link]

htmlCommentElement(tpl, index, entry, commentStyle, entryCenterPos, containerHeight) ==
    [kind |-> "comment-box",
     target |-> htmlTarget(tpl, entryCenterPos,
                           getCrossAxisDirection(commentStyle.Position, index,
                                                 tpl.CenterLine.Orientation = "horizontal"),
                           containerHeight),
     dir |-> getCrossAxisDirection(commentStyle.Position, index,
                                   tpl.CenterLine.Orientation = "horizontal"),
     color |-> IF commentStyle.TextColor = "" THEN "inherit" ELSE commentStyle.TextColor,
     font |-> commentStyle.Font,
     padding |-> IF commentStyle.Shape = "rectangle"
                 THEN parsePadding(Runes(commentStyle.Padding))
                 ELSE <<0, 0, 0, 0>>,
     img |-> entry.CommentImage,
     text |-> entry.CommentText]

\* the elements of one entry: the year, and the comment when the entry has
\* a comment text or image
htmlEntryElements(tpl, index, entry, entryCenterPos, containerHeight) ==
    << htmlYearElement(tpl, index, entry,
                       getEffectiveYearTextStyle(tpl.GlobalFont, tpl.PeriodDefaults.YearText,
                                                 entry.YearTextOverride),
                       entryCenterPos, containerHeight) >>
    \o IF entry.CommentText # "" \/ entry.CommentImage # ""
       THEN << htmlCommentElement(tpl, index, entry,
                   getEffectiveCommentTextStyle(tpl.GlobalFont, tpl.PeriodDefaults.CommentText,
                                                entry.CommentTextOverride),
                   entryCenterPos, containerHeight) >>
       ELSE << >>

RECURSIVE htmlPosition(_, _, _)
\* currentPos after the first n entries: the padding and their spacings
htmlPosition(tpl, es, n) ==
    IF n = 0 THEN tpl.Layout.Padding
    ELSE htmlPosition(tpl, es, n - 1) + htmlSpacing(tpl, es[n])

RECURSIVE htmlElements(_, _, _, _)
\* "Loop Through Entries", from the entry of index k on
htmlElements(tpl, es, k, containerHeight) ==
    IF k >= Len(es) THEN << >>
    ELSE htmlEntryElements(tpl, k, At(es, k),
                           htmlPosition(tpl, es, k) + htmlSpacing(tpl, At(es, k)) \div 2,
                           containerHeight)
         \o htmlElements(tpl, es, k + 1, containerHeight)

htmlContainerHeight(tpl, es) ==
    IF tpl.CenterLine.Orientation = "horizontal" THEN 400
    ELSE htmlPosition(tpl, es, Len(es))

\* generateHTML(template, entries): (document, nil), or the run-time panic
\* of the dereference of a nil template.GlobalFont
generateHTML(tpl, es) ==
    IF tpl.GlobalFont = Nil
    THEN [html |-> Nil, err |-> "", panic |-> "invalid memory address or nil pointer dereference"]
    ELSE [html |-> Ptr([bodyFont |-> getEffectiveFontStyle(Nil, tpl.GlobalFont[1], Nil),
                        lineColor |-> IF tpl.CenterLine.Color = "" THEN "#000"
                                      ELSE tpl.CenterLine.Color,
                        lineWidth |-> IF tpl.CenterLine.Width <= 0 THEN 2
                                      ELSE tpl.CenterLine.Width,
                        lineStyle |-> IF tpl.CenterLine.Type \in {"dotted", "dashed"}
                                      THEN tpl.CenterLine.Type ELSE "solid",
                        containerHeight |-> htmlContainerHeight(tpl, es),
                        elements |-> htmlElements(tpl, es, 0, htmlContainerHeight(tpl, es))]),
          err |-> "", panic |-> ""]

(***************************************************************************)
(* main.  mainRun holds the command line and the files as main finds them  *)
(* (whether each can be read and parsed, the shape of the data document,   *)
(* the format argument, the -o flag) and what the run has done so far:     *)
(* whether the output file was created, closed and removed, which          *)
(* generator was invoked, the fatal error or the panic.  template and      *)
(* dataJSON are the contents of the two files.                             *)
(***************************************************************************)
supportedFormats == {"html", "svg", "png", "jpg", "jpeg"}

\* exportFormat := strings.ToLower(args[2])
exportFormat(run) == Join(ToLower(run.format))

\* log.Fatalf: the message is logged and os.Exit(1) ends the process; the
\* statements after the call and the deferred functions do not run
Fatal(run, message) == Ptr([run EXCEPT !.fatal = message])

MainUnchanged ==
    UNCHANGED <<template, dataJSON, layoutConfig, timelineData, i, current,
                entryAxisPoints, segmentStartPoints, segmentEndPoints,
                initialSeg, svgSegments, placements, result,
                svgBody, timelineBounds, files, call, history>>

\* os.ReadFile(templateFile)
MainReadTemplate ==
    /\ pc = "main"
    /\ IF mainRun[1].templateReadable
       THEN pc' = "main:readData" /\ UNCHANGED mainRun
       ELSE pc' = "fatal" /\ mainRun' = Fatal(mainRun[1], "Error reading template file")
    /\ UNCHANGED entries
    /\ MainUnchanged

\* os.ReadFile(dataFile)
MainReadData ==
    /\ pc = "main:readData"
    /\ IF mainRun[1].dataReadable
       THEN pc' = "main:parseTemplate" /\ UNCHANGED mainRun
       ELSE pc' = "fatal" /\ mainRun' = Fatal(mainRun[1], "Error reading data file")
    /\ UNCHANGED entries
    /\ MainUnchanged

\* json.Unmarshal(templateBytes, &template)
MainParseTemplate ==
    /\ pc = "main:parseTemplate"
    /\ IF mainRun[1].templateParses
       THEN pc' = "main:parseData" /\ UNCHANGED mainRun
       ELSE pc' = "fatal" /\ mainRun' = Fatal(mainRun[1], "Error parsing template JSON")
    /\ UNCHANGED entries
    /\ MainUnchanged

\* json.Unmarshal(dataBytes, &timelineData), then the direct array
MainParseData ==
    /\ pc = "main:parseData"
    /\ IF mainRun[1].dataShape \in {"object", "array"}
       THEN /\ entries' = unmarshalEntries(dataJSON)
            /\ pc' = "main:validate"
            /\ UNCHANGED mainRun
       ELSE /\ pc' = "fatal"
            /\ mainRun' = Fatal(mainRun[1], "Error parsing data JSON")
            /\ UNCHANGED entries
    /\ MainUnchanged

MainValidate_noEntriesCheck ==
    /\ pc = "main:validate"
    /\ IF exportFormat(mainRun[1]) \notin supportedFormats
       THEN pc' = "fatal" /\ mainRun' = Fatal(mainRun[1], "Unsupported export format")
       ELSE IF template.CenterLine.Orientation # "horizontal"
               /\ template.CenterLine.Orientation # "vertical"
       THEN pc' = "fatal" /\ mainRun' = Fatal(mainRun[1], "Template error: center_line.orientation")
       ELSE pc' = "main:output" /\ UNCHANGED mainRun
    /\ UNCHANGED entries
    /\ MainUnchanged

\* format, orientation, entries
MainValidate ==
    /\ pc = "main:validate"
    /\ IF exportFormat(mainRun[1]) \notin supportedFormats
       THEN pc' = "fatal" /\ mainRun' = Fatal(mainRun[1], "Unsupported export format")
       ELSE IF template.CenterLine.Orientation # "horizontal"
               /\ template.CenterLine.Orientation # "vertical"
       THEN pc' = "fatal" /\ mainRun' = Fatal(mainRun[1], "Template error: center_line.orientation")
       ELSE IF Len(entries) = 0
       THEN pc' = "fatal" /\ mainRun' = Fatal(mainRun[1], "Data error: No timeline entries found")
       ELSE pc' = "main:output" /\ UNCHANGED mainRun
    /\ UNCHANGED entries
    /\ MainUnchanged

\* os.Create(*outputFile) when -o is given, else stdout
MainOpenOutput ==
    /\ pc = "main:output"
    /\ IF mainRun[1].outputFile = ""
       THEN pc' = "main:generate" /\ UNCHANGED mainRun
       ELSE IF mainRun[1].outputCreatable
       THEN pc' = "main:generate" /\ mainRun' = Ptr([mainRun[1] EXCEPT !.outputCreated = TRUE])
       ELSE pc' = "fatal" /\ mainRun' = Fatal(mainRun[1], "Error creating output file")
    /\ UNCHANGED entries
    /\ MainUnchanged

\* case "svg": GenerateSVG is called
MainGenerateSVG ==
    /\ pc = "main:generate"
    /\ exportFormat(mainRun[1]) = "svg"
    /\ mainRun' = Ptr([mainRun[1] EXCEPT !.invoked = "GenerateSVG"])
    /\ pc' = "ready"
    /\ UNCHANGED entries
    /\ MainUnchanged

\* main returns: the content was written and the deferred function closes
\* the output file when there is one
MainReturns(run) ==
    Ptr([run EXCEPT !.written = TRUE, !.outputClosed = run.outputCreated])

\* a panic unwinds main: the deferred function closes the output file when
\* there is one, then the program crashes
MainPanics(run, message) ==
    Ptr([run EXCEPT !.panic = message, !.outputClosed = run.outputCreated])

\* case "html": generateHTML runs; its document is written to the output
MainGenerateHTML ==
    /\ pc = "main:generate"
    /\ exportFormat(mainRun[1]) = "html"
    /\ \E out \in {generateHTML(template, entries)} :
          IF out.panic # ""
          THEN /\ pc' = "panic"
               /\ mainRun' = MainPanics([mainRun[1] EXCEPT !.invoked = "generateHTML"], out.panic)
          ELSE IF out.err # ""
          THEN /\ pc' = "fatal"
               /\ mainRun' = Fatal([mainRun[1] EXCEPT !.invoked = "generateHTML"],
                                   "Error generating html: HTML generation failed")
          ELSE IF ~mainRun[1].writable
          THEN /\ pc' = "fatal"
               /\ mainRun' = Fatal([mainRun[1] EXCEPT !.invoked = "generateHTML"],
                                   "Error generating html: failed to write HTML output")
          ELSE /\ pc' = "exit"
               /\ mainRun' = MainReturns([mainRun[1] EXCEPT !.invoked = "generateHTML",
                                                            !.html = out.html])
    /\ UNCHANGED entries
    /\ MainUnchanged

\* case "png", "jpg", "jpeg": generateImage runs the browser and writes the
\* image, and returns with or without an error
MainGenerateImage ==
    /\ pc = "main:generate"
    /\ exportFormat(mainRun[1]) \notin {"svg", "html"}
    /\ \E failed \in BOOLEAN :
          IF failed
          THEN /\ pc' = "fatal"
               /\ mainRun' = Fatal([mainRun[1] EXCEPT !.invoked = "generateImage"],
                                   "Error generating image")
          ELSE /\ pc' = "exit"
               /\ mainRun' = MainReturns([mainRun[1] EXCEPT !.invoked = "generateImage"])
    /\ UNCHANGED entries
    /\ MainUnchanged

\* GenerateSVG has returned to main: the content is written, or the error
\* of the generation or of the write is fatal
MainWriteSVG ==
    /\ pc \in {"done", "error"}
    /\ mainRun # Nil
    /\ mainRun[1].invoked = "GenerateSVG"
    /\ IF result[1].err # ""
       THEN pc' = "fatal" /\ mainRun' = Fatal(mainRun[1], "Error generating svg: SVG generation failed")
       ELSE IF ~mainRun[1].writable
       THEN pc' = "fatal" /\ mainRun' = Fatal(mainRun[1], "Error generating svg: failed to write SVG output")
       ELSE pc' = "exit" /\ mainRun' = MainReturns(mainRun[1])
    /\ UNCHANGED entries
    /\ MainUnchanged

NextMain ==
    \/ MainReadTemplate
    \/ MainReadData
    \/ MainParseTemplate
    \/ MainParseData
    \/ MainValidate
    \/ MainOpenOutput
    \/ MainGenerateSVG
    \/ MainGenerateHTML
    \/ MainGenerateImage
    \/ MainWriteSVG
    \/ Next

(***************************************************************************)
(* Inputs of main: the files readable and parsable or not, the data as an  *)
(* object with "entries", as an array or as neither, formats in both       *)
(* cases and an unsupported one, a third orientation, with and without a   *)
(* global font, with and without -o, the output writable or not.           *)
(* GenerateSVG is also called on its own, as the tests do.                 *)
(***************************************************************************)
MainFormats ==
    {<<"s", "v", "g">>, <<"S", "V", "G">>, <<"h", "t", "m", "l">>, <<"p", "n", "g">>,
     <<"p", "d", "f">>}

MainRuns ==
    [templateReadable : BOOLEAN, dataReadable : BOOLEAN, templateParses : BOOLEAN,
     dataShape : {"object", "array", "neither"}, format : MainFormats,
     outputFile : {"", "out.svg"}, outputCreatable : BOOLEAN, writable : BOOLEAN,
     outputCreated : {FALSE}, outputClosed : {FALSE}, outputRemoved : {FALSE},
     invoked : {""}, fatal : {""}, panic : {""}, html : {Nil}, written : {FALSE}]

MainTemplates ==
    {[TplFull EXCEPT !.CenterLine.Orientation = o, !.GlobalFont = g] :
        o \in {"horizontal", "vertical", "diagonal"}, g \in {Nil, Ptr(FontGlobalFull)}}

InitMain ==
    /\ template \in MainTemplates
    /\ dataJSON \in {<<>>, <<EntryPlain>>}
    /\ InitGenerate
    /\ files = {}
    /\ call = Nil
    /\ \/ pc = "main" /\ mainRun \in {Ptr(run) : run \in MainRuns}
       \/ pc = "parse" /\ mainRun = Nil

SpecMain == InitMain /\ [][NextMain]_vars

(***************************************************************************)
(* C17: structural input errors.                                           *)
(***************************************************************************)
\* what the data file holds once parsed
DataEntries == unmarshalEntries(dataJSON)

StructuralError(run) ==
    \/ ~run.templateReadable
    \/ ~run.dataReadable
    \/ ~run.templateParses
    \/ run.dataShape = "neither"
    \/ exportFormat(run) \notin supportedFormats
    \/ template.CenterLine.Orientation \notin {"horizontal", "vertical"}
    \/ Len(DataEntries) = 0

NoGeometry ==
    /\ layoutConfig = Nil
    /\ timelineData = NoData
    /\ entryAxisPoints = <<>>
    /\ svgSegments = <<>>
    /\ placements = <<>>
    /\ svgBody = <<>>
    /\ ~timelineBounds.isSet

\* C17: in a run of main every structural input error (unreadable template
\* or data file, unparsable template or data JSON, unsupported format,
\* orientation other than horizontal/vertical, empty entry list) ends the
\* run with a fatal error before the output file is created and before
\* GenerateSVG, generateHTML or generateImage is invoked; and GenerateSVG
\* called directly with an empty entry list returns an error and the empty
\* string without producing any geometry.
C17_StructuralErrorsFatal ==
    /\ (mainRun # Nil /\ StructuralError(mainRun[1])) =>
          /\ ~mainRun[1].outputCreated
          /\ mainRun[1].invoked = ""
          /\ ~mainRun[1].written
          /\ NoGeometry
          /\ pc # "exit"
          /\ ~ENABLED NextMain => (pc = "fatal" /\ mainRun[1].fatal # "")
    /\ (mainRun = Nil /\ pc \notin {"parse", "ready"}) =>
          IF Len(entries) = 0
          THEN /\ pc = "error"
               /\ result[1].svg = ""
               /\ result[1].err # ""
               /\ NoGeometry
          ELSE pc # "error"

\* a run of main over readable, well-formed files whose data document is
\* an empty array, with -o given: fatal, and no output file was created
C17_Witness ==
    /\ mainRun # Nil
    /\ pc = "fatal"
    /\ mainRun[1].templateReadable /\ mainRun[1].dataReadable /\ mainRun[1].templateParses
    /\ mainRun[1].dataShape = "array"
    /\ exportFormat(mainRun[1]) = "svg"
    /\ template.CenterLine.Orientation = "horizontal"
    /\ Len(entries) = 0
    /\ mainRun[1].outputFile # "" /\ mainRun[1].outputCreatable
    /\ ~mainRun[1].outputCreated
    /\ mainRun[1].fatal = "Data error: No timeline entries found"

(***************************************************************************)
(* parseShapeString on its own, and the label shapes in a run.  A shape    *)
(* string is put together from a type and up to MaxParams parameter        *)
(* tokens; call holds the pieces, the string and, once the call has        *)
(* returned, what it returned.  In a run the template's label shape and    *)
(* the second entry's override are well-formed or malformed shape strings. *)
(***************************************************************************)
ShapeTypes ==
    {[text |-> <<>>, lower |-> ""],
     [text |-> <<"n", "o", "n", "e">>, lower |-> "none"],
     [text |-> <<"c", "i", "r", "c", "l", "e">>, lower |-> "circle"],
     [text |-> <<"C", "i", "r", "c", "l", "e">>, lower |-> "circle"],
     [text |-> <<"r", "e", "c", "t", "a", "n", "g", "l", "e">>, lower |-> "rectangle"],
     [text |-> <<"s", "t", "a", "r">>, lower |-> "star"]}

\* wellFormed: key=value with a numeric value or r=auto
ShapeTokens ==
    {[text |-> <<"r", "=", "1", "0">>, key |-> "r", wellFormed |-> TRUE, value |-> 10],
     [text |-> <<"r", "=", "a", "u", "t", "o">>, key |-> "r", wellFormed |-> TRUE, value |-> -1],
     [text |-> <<"r", "=", "x">>, key |-> "r", wellFormed |-> FALSE, value |-> 0],
     [text |-> <<"r">>, key |-> "r", wellFormed |-> FALSE, value |-> 0],
     [text |-> <<"w", "=", "5">>, key |-> "w", wellFormed |-> TRUE, value |-> 5],
     [text |-> <<"h", "=", "2", "0">>, key |-> "h", wellFormed |-> TRUE, value |-> 20]}

RECURSIVE ShapeText(_, _)
ShapeText(text, tokens) ==
    IF tokens = <<>> THEN text
    ELSE ShapeText(text \o <<";">> \o Head(tokens).text, Tail(tokens))

ShapeCalls ==
    {[fn |-> "parseShapeString", type |-> t, tokens |-> ps,
      arg |-> ShapeText(t.text, ps), ret |-> Nil] :
        t \in ShapeTypes, ps \in SeqsUpTo(ShapeTokens, MaxParams)}

WellFormedShapes == {"circle;r=10", "circle;r=auto", "Circle;r=10", "rectangle;w=40;h=20"}
MalformedShapes == {"circle;r=x", "circle;r", "rectangle;w=5", "circle;r=10;x"}
YearShapes == {"", "none"} \cup WellFormedShapes \cup MalformedShapes

InitShape ==
    \/ /\ template = TplFull
       /\ dataJSON = <<>>
       /\ InitGenerate
       /\ pc = "call"
       /\ files = {}
       /\ mainRun = Nil
       /\ call \in {Ptr(c) : c \in ShapeCalls}
    \/ /\ template \in {[TplFull EXCEPT !.PeriodDefaults.YearText.Shape = s] : s \in YearShapes}
       /\ dataJSON \in {<<>>, <<EntryPlain>>}
              \cup {<<EntryPlain, [EntryPlain EXCEPT !.YearTextOverride =
                                      Ptr([YearOvrNil EXCEPT !.Shape = Ptr(s)])]>> :
                       s \in YearShapes}
       /\ InitRun

\* parseShapeString(shapeStr)
CallParseShapeString ==
    /\ pc = "call"
    /\ call[1].fn = "parseShapeString"
    /\ call' = Ptr([call[1] EXCEPT !.ret = Ptr(parseShapeString(call[1].arg))])
    /\ pc' = "returned"
    /\ UNCHANGED <<template, dataJSON, entries, layoutConfig, timelineData, i,
                   current, entryAxisPoints, segmentStartPoints, segmentEndPoints,
                   initialSeg, svgSegments, placements, result,
                   svgBody, timelineBounds, files, mainRun, history>>

NextShape ==
    \/ CallParseShapeString
    \/ Next

SpecShape == InitShape /\ [][NextShape]_vars

(***************************************************************************)
(* C18: shape strings.                                                     *)
(***************************************************************************)
\* key -> value of the last token with that key
TokenParams(tokens) ==
    [key \in {tokens[n].key : n \in 1..Len(tokens)} |->
        LET last == CHOOSE n \in 1..Len(tokens) :
                        /\ tokens[n].key = key
                        /\ \A m \in (n + 1)..Len(tokens) : tokens[m].key # key
        IN tokens[last].value]

ShapeParsedAsClaimed(c) ==
    LET ret == c.ret[1]
        keys == {c.tokens[n].key : n \in 1..Len(c.tokens)}
        malformed == \E n \in 1..Len(c.tokens) : ~c.tokens[n].wellFormed
        incomplete == \/ c.type.lower = "circle" /\ "r" \notin keys
                      \/ c.type.lower = "rectangle" /\ ("w" \notin keys \/ "h" \notin keys)
    IN /\ c.arg = <<>> => ret = [shapeType |-> "none", params |-> EmptyMap, err |-> ""]
       /\ Join(c.arg) = "none" => ret = [shapeType |-> "none", params |-> EmptyMap, err |-> ""]
       /\ Join(c.arg) = "circle;r=10" =>
             ret = [shapeType |-> "circle", params |-> [k \in {"r"} |-> 10], err |-> ""]
       /\ Join(c.arg) = "circle;r=auto" =>
             ret = [shapeType |-> "circle", params |-> [k \in {"r"} |-> -1], err |-> ""]
       /\ (c.type.lower # "" /\ (malformed \/ incomplete)) => ret.err # ""
       /\ (c.type.lower # "" /\ ~malformed /\ ~incomplete) =>
             /\ ret.err = ""
             /\ ret.shapeType = c.type.lower
             /\ ret.params = TokenParams(c.tokens)

ShapesOf(elements) == SelectSeq(elements, LAMBDA e : e.of = "yearShape")
TextsOf(elements) == SelectSeq(elements, LAMBDA e : e.of = "yearText")

\* C18: parseShapeString maps '<type>' or '<type>;key=value;...' to the
\* lower-cased type and the numeric parameters ('circle;r=10' -> circle,
\* {r:10}; 'circle;r=auto' -> {r:-1}; '' and 'none' -> none, no parameters,
\* no error); a circle without r, a rectangle without w or without h, a
\* parameter without '=' and a non-numeric value yield an error.  On such
\* an error drawYearElement draws no background shape for that label but
\* still its text, and the other entries keep their shapes and texts.
C18_ShapeStrings ==
    /\ (pc = "returned" /\ call[1].fn = "parseShapeString") => ShapeParsedAsClaimed(call[1])
    /\ \A n \in 1..Len(placements) :
          LET shape == At(timelineData.yearStyles, n - 1).Shape
              drawn == placements[n].yearElement
          IN /\ Len(TextsOf(drawn)) = 1
             /\ TextsOf(drawn)[1].text = At(entries, n - 1).Period
             /\ AxisPoint(TextsOf(drawn)[1].x, TextsOf(drawn)[1].y) = placements[n].yearCenter
             /\ shape \in MalformedShapes => ShapesOf(drawn) = <<>>
             /\ shape \in WellFormedShapes =>
                   /\ Len(ShapesOf(drawn)) = 1
                   /\ ShapesOf(drawn)[1].kind
                          = IF shape = "rectangle;w=40;h=20" THEN "rect" ELSE "circle"
    /\ pc = "done" => Len(placements) = Len(entries)

\* a finished run of two entries: the first label's shape string has a
\* parameter without '=' after a valid radius and gets its text but no
\* shape, the second label's is well-formed and gets its circle
C18_Witness ==
    /\ pc = "done"
    /\ Len(placements) = 2
    /\ At(timelineData.yearStyles, 0).Shape = "circle;r=10;x"
    /\ At(timelineData.yearStyles, 1).Shape = "circle;r=10"
    /\ ShapesOf(placements[1].yearElement) = <<>>
    /\ Len(TextsOf(placements[1].yearElement)) = 1
    /\ Len(ShapesOf(placements[2].yearElement)) = 1
    /\ ShapesOf(placements[2].yearElement)[1].r = 10

(***************************************************************************)
(* parsePadding on its own.  A padding string is put together from up to   *)
(* MaxTokens tokens, numbers and a word, separated by one or two spaces    *)
(* and with or without spaces around; call holds the tokens, the string    *)
(* and, once the call has returned, what it returned.                      *)
(***************************************************************************)
PaddingTokens ==
    {[text |-> <<"5">>, value |-> 5],
     [text |-> <<"1", "0">>, value |-> 10],
     [text |-> <<"1", "5">>, value |-> 15],
     [text |-> <<"2", "0">>, value |-> 20],
     [text |-> <<"a", "b", "c">>, value |-> 0]}

RECURSIVE PaddingText(_, _)
PaddingText(tokens, sep) ==
    IF tokens = <<>> THEN <<>>
    ELSE IF Len(tokens) = 1 THEN Head(tokens).text
    ELSE Head(tokens).text \o sep \o PaddingText(Tail(tokens), sep)

PaddingCalls ==
    {[fn |-> "parsePadding", tokens |-> ts,
      arg |-> around \o PaddingText(ts, sep) \o around, ret |-> Nil] :
        ts \in SeqsUpTo(PaddingTokens, MaxTokens),
        sep \in {<<" ">>, <<" ", " ">>},
        around \in {<<>>, <<" ">>}}

InitPadding ==
    /\ template = TplFull
    /\ dataJSON = <<>>
    /\ InitGenerate
    /\ pc = "call"
    /\ files = {}
    /\ mainRun = Nil
    /\ call \in {Ptr(c) : c \in PaddingCalls}

\* parsePadding(paddingStr)
CallParsePadding ==
    /\ pc = "call"
    /\ call[1].fn = "parsePadding"
    /\ call' = Ptr([call[1] EXCEPT !.ret = Ptr(parsePadding(call[1].arg))])
    /\ pc' = "returned"
    /\ UNCHANGED <<template, dataJSON, entries, layoutConfig, timelineData, i,
                   current, entryAxisPoints, segmentStartPoints, segmentEndPoints,
                   initialSeg, svgSegments, placements, result,
                   svgBody, timelineBounds, files, mainRun, history>>

NextPadding == CallParsePadding

SpecPadding == InitPadding /\ [][NextPadding]_vars

(***************************************************************************)
(* C19: padding strings.                                                   *)
(***************************************************************************)
\* C19: parsePadding maps a whitespace-separated padding string to
\* <<top, right, bottom, left>> by the CSS shorthand: a -> (a,a,a,a);
\* a b -> (a,b,a,b); a b c -> (a,b,c,b); a b c d -> (a,b,c,d); a token
\* that is not a number counts as 0 in its position; the empty string
\* gives (0,0,0,0); there is a result for every string.
C19_PaddingShorthand ==
    (pc = "returned" /\ call[1].fn = "parsePadding") =>
        LET ret == call[1].ret[1]
            v == [n \in 1..Len(call[1].tokens) |-> call[1].tokens[n].value]
        IN /\ ret \in Int \X Int \X Int \X Int
           /\ call[1].arg = <<>> => ret = <<0, 0, 0, 0>>
           /\ Len(v) = 0 => ret = <<0, 0, 0, 0>>
           /\ Len(v) = 1 => ret = <<v[1], v[1], v[1], v[1]>>
           /\ Len(v) = 2 => ret = <<v[1], v[2], v[1], v[2]>>
           /\ Len(v) = 3 => ret = <<v[1], v[2], v[3], v[2]>>
           /\ Len(v) = 4 => ret = <<v[1], v[2], v[3], v[4]>>
           /\ Join(call[1].arg) = "abc" => ret = <<0, 0, 0, 0>>
           /\ Join(call[1].arg) = "5 10 15 20" => ret = <<5, 10, 15, 20>>

\* the call on "10 abc 5" has returned: 10 on top, 0 right and left, 5 below
C19_Witness ==
    /\ pc = "returned"
    /\ call[1].fn = "parsePadding"
    /\ Join(call[1].arg) = "10 abc 5"
    /\ call[1].ret = Ptr(<<10, 0, 5, 0>>)

(***************************************************************************)
(* Repeated calls: GenerateSVG is called up to MaxRuns times with          *)
(* templates and entry lists chosen anew, and between the calls the local  *)
(* image file that an entry refers to may appear or disappear.  history    *)
(* holds each returned call.                                               *)
(***************************************************************************)
LocalImages == {"img1.png"}

EntryWithImage == [EntryPlain EXCEPT !.CommentImage = "img1.png"]

RunTemplates == {TplFull, [TplFull EXCEPT !.CenterLine.Orientation = "vertical"]}
RunData == {<<>>, <<EntryWithImage>>, <<EntryPlain, EntryWithImage>>}

InitRuns ==
    /\ template \in RunTemplates
    /\ dataJSON \in RunData
    /\ files \in SUBSET LocalImages
    /\ InitGenerate
    /\ pc = "parse"
    /\ call = Nil
    /\ mainRun = Nil

\* the caller starts over with another template and data document; what
\* the previous call left behind is still there
CallAgain ==
    /\ pc \in {"done", "error"}
    /\ Len(history) < MaxRuns
    /\ template' \in RunTemplates
    /\ dataJSON' \in RunData
    /\ pc' = "parse"
    /\ UNCHANGED <<entries, layoutConfig, timelineData, i, current,
                   entryAxisPoints, segmentStartPoints, segmentEndPoints,
                   initialSeg, svgSegments, placements, result,
                   svgBody, timelineBounds, files, call, mainRun, history>>

\* between two calls a local image file is created or removed
ImageFileChanges ==
    /\ pc \in {"done", "error"}
    /\ Len(history) < MaxRuns
    /\ files' \in (SUBSET LocalImages) \ {files}
    /\ UNCHANGED <<template, dataJSON, entries, pc, layoutConfig, timelineData, i, current,
                   entryAxisPoints, segmentStartPoints, segmentEndPoints,
                   initialSeg, svgSegments, placements, result,
                   svgBody, timelineBounds, call, mainRun, history>>

NextRuns ==
    \/ CallAgain
    \/ ImageFileChanges
    \/ Next

SpecRuns == InitRuns /\ [][NextRuns]_vars

(***************************************************************************)
(* C20: repeated calls.                                                    *)
(***************************************************************************)
SameInput(a, b) == a.template = b.template /\ a.entries = b.entries

\* C20 as claimed: two calls with the same template and the same entry
\* list, in either order and with any calls in between, produce identical
\* axis coordinates, identical bounds and an identical SVG string.
C20_Deterministic_AsClaimed ==
    \A a \in 1..Len(history), b \in 1..Len(history) :
        SameInput(history[a], history[b]) =>
            /\ history[a].entryAxisPoints = history[b].entryAxisPoints
            /\ history[a].bounds = history[b].bounds
            /\ history[a].result = history[b].result

\* C20, amended: the axis coordinates and the bounds are identical; the
\* SVG string is identical when the local image files that the entries
\* refer to read the same in both calls.
C20_Deterministic ==
    \A a \in 1..Len(history), b \in 1..Len(history) :
        SameInput(history[a], history[b]) =>
            /\ history[a].entryAxisPoints = history[b].entryAxisPoints
            /\ history[a].bounds = history[b].bounds
            /\ history[a].files = history[b].files =>
                  history[a].result = history[b].result

\* three calls, the first and the third with the same template, the same
\* two entries and the image file in place, the second with another
\* template: the first and the third returned the same document, which
\* embeds the image
C20_Witness ==
    /\ Len(history) = 3
    /\ SameInput(history[1], history[3])
    /\ history[2].template # history[1].template
    /\ Len(history[1].entries) = 2
    /\ history[1].files = LocalImages
    /\ history[3].files = LocalImages
    /\ history[1].result = history[3].result
    /\ history[3].result[1].err = ""
    /\ \E n \in 1..Len(history[3].result[1].svg.body) :
          /\ history[3].result[1].svg.body[n].of = "commentBody"
          /\ history[3].result[1].svg.body[n].img = "data:img1.png"

(***************************************************************************)
(* C21: the comment block around its anchor and the comment-side end of    *)
(* the connector.                                                          *)
(***************************************************************************)
\* the CommentBlockLayout drawTimelineEntry calculated for the n-th placed entry
CommentLayoutOf(n) ==
    calculateCommentBlockLayout(
        entryCommentParams(
            entryResolved(placements[n].index, At(entries, placements[n].index),
                          timelineData, At(entryAxisPoints, placements[n].index),
                          template.CenterLine.Orientation = "horizontal", layoutConfig[1]),
            placements[n].commentAnchor[1]))

\* the midpoint of the edge of the block that faces the axis: the axis lies
\* against the cross-axis direction of the comment
NearEdgeMidpoint(layout, crossAxisDir, isHorizontal) ==
    IF isHorizontal
    THEN AxisPoint(layout.blockX + layout.visualBlockWidth \div 2,
                   IF crossAxisDir < 0 THEN layout.blockY + layout.visualBlockHeight
                   ELSE layout.blockY)
    ELSE AxisPoint(IF crossAxisDir < 0 THEN layout.blockX + layout.visualBlockWidth
                   ELSE layout.blockX,
                   layout.blockY + layout.visualBlockHeight \div 2)

\* the block is centered on the anchor along the axis and its near edge is
\* at the anchor
BlockPinnedAtAnchor(n) ==
    NearEdgeMidpoint(CommentLayoutOf(n), placements[n].commentCrossAxisDir,
                     placements[n].effectiveIsHorizontal) = placements[n].commentAnchor[1]

\* the comment-side end point of the comment connector of the n-th placed entry
CommentEdgeOf(n) ==
    AxisPoint(placements[n].commentConnector[1].params.X1,
              placements[n].commentConnector[1].params.Y1)

\* C21: for every entry with a comment the block is centered on the comment
\* anchor along the axis with its axis-facing edge at the anchor, and the
\* comment-side end point of the connector is the midpoint of that near
\* edge, that is, the comment anchor.
C21_EdgePointOnNearEdge ==
    \A n \in 1..Len(placements) :
        placements[n].hasComment =>
            /\ BlockPinnedAtAnchor(n)
            /\ CommentEdgeOf(n) = NearEdgeMidpoint(CommentLayoutOf(n),
                                                   placements[n].commentCrossAxisDir,
                                                   placements[n].effectiveIsHorizontal)
            /\ CommentEdgeOf(n) = placements[n].commentAnchor[1]

\* the placement of the block alone, which the code does as documented
C21_BlockPinned ==
    \A n \in 1..Len(placements) : placements[n].hasComment => BlockPinnedAtAnchor(n)

\* the end point the code computes: the midpoint of the far edge, one block
\* height (width, when vertical) beyond the anchor
C21_EdgePointOnFarEdge ==
    \A n \in 1..Len(placements) :
        placements[n].hasComment =>
            LET layout == CommentLayoutOf(n)
                dir == placements[n].commentCrossAxisDir
                anchor == placements[n].commentAnchor[1]
            IN CommentEdgeOf(n) =
                   IF placements[n].effectiveIsHorizontal
                   THEN AxisPoint(anchor.X, anchor.Y + dir * layout.visualBlockHeight)
                   ELSE AxisPoint(anchor.X + dir * layout.visualBlockWidth, anchor.Y)

(***************************************************************************)
(* C22: the bounds after the drawing pass and the shapes in the body.      *)
(***************************************************************************)
\* the corner points of the geometry of an element of the body; a text is
\* taken at its anchor, an empty text, <a> and </a> have no geometry
ElementCorners(e) ==
    CASE e.kind = "line" -> {AxisPoint(e.x1, e.y1), AxisPoint(e.x2, e.y2)}
      [] e.kind = "circle" -> {AxisPoint(e.cx - e.r, e.cy - e.r), AxisPoint(e.cx + e.r, e.cy + e.r)}
      [] e.kind \in {"rect", "foreignObject"} ->
             {AxisPoint(e.x, e.y), AxisPoint(e.x + e.width, e.y + e.height)}
      [] e.kind = "polygon" ->
             {AxisPoint(e.points[2 * j - 1], e.points[2 * j]) : j \in 1..(Len(e.points) \div 2)}
      [] e.kind = "text" -> IF e.text = "" THEN {} ELSE {AxisPoint(e.x, e.y)}
      [] OTHER -> {}

InBounds(b, point) ==
    /\ b.isSet
    /\ b.minX <= point.X /\ point.X <= b.maxX
    /\ b.minY <= point.Y /\ point.Y <= b.maxY

\* the elements of the body that reach outside the final bounds
OutsideBounds ==
    {n \in 1..Len(svgBody) :
        \E point \in ElementCorners(svgBody[n]) : ~InBounds(timelineBounds, point)}

\* C22: after the drawing pass the bounds contain the full extent of every
\* shape that was emitted: axis segments, junction markers, label shapes and
\* texts, connector segments and dots, comment backgrounds, titles, title
\* rules and bodies.
C22_BoundsContainEveryShape ==
    pc = "done" => OutsideBounds = {}

\* what the pass does record: every emitted shape other than the background
\* shape of a label lies within the final bounds
C22_BoundsContainAllButLabelShapes ==
    pc = "done" => \A n \in OutsideBounds : svgBody[n].of = "yearShape"

(***************************************************************************)
(* C23: the length of the connector segments.                              *)
(***************************************************************************)
\* the two end points of the segment differ by at least 0.001 in a coordinate
IsProperSegment(seg) ==
    ~Coincide(AxisPoint(seg[1], seg[2]), AxisPoint(seg[3], seg[4]))

\* C23: every line segment written by drawConnectorLineSegments has two
\* distinct end points (they differ by at least 0.001 in some coordinate),
\* for every combination of dot offsets, element offsets and stop_at_dot.
C23_NoZeroLengthSegment ==
    \A c \in DrawnConnectors :
        \A n \in 1..Len(SegmentsOf(c)) : IsProperSegment(SegmentsOf(c)[n])

\* the one re-routing the code does: a straight connector that stops at a
\* dot lying on the element anchor is drawn to the axis anchor, and is of
\* positive length when the two anchors differ
C23_StraightStopIsProper ==
    \A c \in DrawnConnectors :
        (/\ StopsAtDot(c.params) /\ ~HasCrossOffset(c.params)
         /\ ~Coincide(AxisPoint(c.params.X1, c.params.Y1), AxisPoint(c.params.X2, c.params.Y2)))
            => \A n \in 1..Len(SegmentsOf(c)) : IsProperSegment(SegmentsOf(c)[n])

(***************************************************************************)
(* Inputs with shapes of zero or negative size: the label shape with a     *)
(* radius, width or height that is zero, negative, positive or automatic,  *)
(* the connector dot and the junction marker with a size that is zero,     *)
(* negative or positive, in both orientations.                             *)
(***************************************************************************)
DegenerateShapes ==
    {"circle;r=0", "circle;r=-5", "rectangle;w=0;h=20", "rectangle;w=40;h=-2"}

DegenerateTemplates ==
    {[TplFull EXCEPT !.CenterLine.Orientation = o,
                     !.GlobalFont = Ptr(FontGlobalFull),
                     !.PeriodDefaults.YearText.Shape = s,
                     !.PeriodDefaults.Connector.Dot.Size = ds,
                     !.PeriodDefaults.JunctionMarker.Size = ms] :
        o \in {"horizontal", "vertical"},
        s \in DegenerateShapes \cup {"circle;r=10", "circle;r=auto", "rectangle;w=40;h=20"},
        ds \in {-1, 0, 8},
        ms \in {-1, 0, 8}}

InitDegenerate ==
    /\ template \in DegenerateTemplates
    /\ dataJSON \in {<<>>, <<EntryPlain>>, <<EntryBare, EntryPlain>>}
    /\ InitRun

SpecDegenerate == InitDegenerate /\ [][Next]_vars

(***************************************************************************)
(* C24: shapes of zero or negative size.                                   *)
(***************************************************************************)
\* the effective styles of the n-th placed entry
ResolvedOf(n) ==
    entryResolved(placements[n].index, At(entries, placements[n].index),
                  timelineData, At(entryAxisPoints, placements[n].index),
                  template.CenterLine.Orientation = "horizontal", layoutConfig[1])

\* the elements of a kind that the n-th entry wrote
WrittenOf(n, of) == SelectSeq(placements[n].written, LAMBDA e : e.of = of)

\* the label shape string of the n-th entry as parseShapeString reads it
LabelShapeOf(n) == parseShapeString(Runes(ResolvedOf(n).yearStyle.Shape))

\* the label shape has a radius, a width or a height that is zero or
\* negative and was not written as 'auto'
LabelShapeIsDegenerate(n) ==
    /\ LabelShapeOf(n).err = ""
    /\ \/ /\ LabelShapeOf(n).shapeType = "circle"
          /\ MapGet(LabelShapeOf(n).params, "r") <= 0
          /\ ResolvedOf(n).yearStyle.Shape # "circle;r=auto"
       \/ /\ LabelShapeOf(n).shapeType = "rectangle"
          /\ (MapGet(LabelShapeOf(n).params, "w") <= 0 \/ MapGet(LabelShapeOf(n).params, "h") <= 0)

\* the canvas before a draw function is applied to it on its own
EmptyCanvas == Canvas(<<>>, NoBounds)

\* the label shape of the n-th entry is not written and records nothing
LabelShapeSkipped(n) ==
    /\ WrittenOf(n, "yearShape") = <<>>
    /\ drawYearShape(EmptyCanvas,
                     yearShapeParams(LabelShapeOf(n), ResolvedOf(n).entry, ResolvedOf(n).yearStyle,
                                     placements[n].yearCenter.X, placements[n].yearCenter.Y))
           = EmptyCanvas

\* no connector of the n-th entry has its dot written or recorded
DotsSkipped(n) ==
    /\ WrittenOf(n, "dot") = <<>>
    /\ \A c \in ConnectorsOf(n) :
          drawConnectorDot(EmptyCanvas, c.params, DotPosition(c.params), "") = EmptyCanvas

\* the junction marker of the n-th entry is not written and records nothing
MarkerSkipped(n) ==
    /\ WrittenOf(n, "marker") = <<>>
    /\ drawJunctionMarker(EmptyCanvas,
                          [Style |-> ResolvedOf(n).markerStyle,
                           CenterX |-> placements[n].markerCenter.X,
                           CenterY |-> placements[n].markerCenter.Y,
                           MarkerColor |-> placements[n].markerColor,
                           IsHorizontal |-> placements[n].effectiveIsHorizontal,
                           CenterLineWidth |-> layoutConfig[1].centerLineWidth])
           = EmptyCanvas

\* the other primitives of the entry are there: the label text, the lines
\* of the label connector when it is drawn, the background and the title of
\* the comment when there is one
RestOfEntryDrawn(n) ==
    /\ Len(WrittenOf(n, "yearText")) = 1
    /\ placements[n].drawPeriodLine => Len(WrittenOf(n, "connector")) >= 1
    /\ placements[n].hasComment =>
          Len(WrittenOf(n, "commentBackground")) = 1 /\ Len(WrittenOf(n, "commentTitle")) = 1

\* C24: a label circle whose radius is zero or negative (and not 'auto'), a
\* label rectangle whose width or height is <= 0, a connector dot whose
\* size is <= 0 and a junction marker whose size is <= 0 are not written
\* and record nothing in the bounds; the run reports no error and the other
\* primitives of the entry are drawn.
C24_DegenerateShapesSkipped ==
    pc = "done" =>
        /\ result[1].err = ""
        /\ \A n \in 1..Len(placements) :
              /\ LabelShapeIsDegenerate(n) => LabelShapeSkipped(n)
              /\ ResolvedOf(n).connStyle.Dot.Size <= 0 => DotsSkipped(n)
              /\ ResolvedOf(n).markerStyle.Size <= 0 => MarkerSkipped(n)
              /\ RestOfEntryDrawn(n)

\* a label circle with a negative radius is written as if the radius were
\* 'auto': with the radius computed from the text
NegativeRadiusDrawnAsAuto(n) ==
    /\ Len(WrittenOf(n, "yearShape")) = 1
    /\ WrittenOf(n, "yearShape")[1].kind = "circle"
    /\ WrittenOf(n, "yearShape")[1].r > 0
    /\ WrittenOf(n, "yearShape") =
           Written(EmptyCanvas,
                   drawYearShape(EmptyCanvas,
                       yearShapeParams(parseShapeString(Runes("circle;r=auto")),
                                       ResolvedOf(n).entry, ResolvedOf(n).yearStyle,
                                       placements[n].yearCenter.X, placements[n].yearCenter.Y)))

\* C24, amended: a label circle whose radius is zero, a label rectangle
\* whose width or height is <= 0, a connector dot whose size is <= 0 and a
\* junction marker whose size is <= 0 are not written and record nothing in
\* the bounds; the run reports no error and the other primitives of the
\* entry are drawn. A label circle with a negative radius is not skipped:
\* it is drawn like 'circle;r=auto'.
C24_SkippedButNegativeRadius ==
    pc = "done" =>
        /\ result[1].err = ""
        /\ \A n \in 1..Len(placements) :
              /\ LabelShapeIsDegenerate(n) =>
                    IF LabelShapeOf(n).shapeType = "circle"
                       /\ MapGet(LabelShapeOf(n).params, "r") < 0
                    THEN NegativeRadiusDrawnAsAuto(n)
                    ELSE LabelShapeSkipped(n)
              /\ ResolvedOf(n).connStyle.Dot.Size <= 0 => DotsSkipped(n)
              /\ ResolvedOf(n).markerStyle.Size <= 0 => MarkerSkipped(n)
              /\ RestOfEntryDrawn(n)

\* a finished run of two entries whose labels are circles of radius 0, with
\* a dot of size 0 and a marker of size -1: no label shape, dot or marker
\* in the body, the label texts, the label connectors and the comment of
\* the second entry are there
C24_Witness ==
    /\ pc = "done"
    /\ Len(placements) = 2
    /\ \A n \in 1..2 :
          /\ ResolvedOf(n).yearStyle.Shape = "circle;r=0"
          /\ ResolvedOf(n).connStyle.Dot.Size = 0
          /\ ResolvedOf(n).markerStyle.Size = -1
          /\ placements[n].drawPeriodLine
    /\ placements[2].hasComment
    /\ \A k \in 1..Len(svgBody) : svgBody[k].of \notin {"yearShape", "dot", "marker"}
    /\ \E k \in 1..Len(svgBody) : svgBody[k].of = "commentTitle"
    /\ Len(SelectSeq(svgBody, LAMBDA e : e.of = "yearText")) = 2

(***************************************************************************)
(* C25: the connector that does not stop at its dot.                       *)
(***************************************************************************)
\* C25: a visible connector with stop_at_dot = false is drawn as exactly
\* one segment from the element anchor to the axis anchor, whatever the
\* offsets of the dot and the cross offset of the element are; the dot
\* position is not an end point or a joint of the path.
C25_StraightToAxis ==
    \A c \in DrawnConnectors :
        (c.params.LineIsVisible /\ ~c.params.Style.Dot.StopAtDot) =>
            SegmentsOf(c) = << <<c.params.X1, c.params.Y1, c.params.X2, c.params.Y2>> >>

\* a finished run with a label connector that does not stop at its dot, the
\* dot 40 along and 5 across and the label 10 across: one segment from the
\* label to the axis anchor, the dot away from both
C25_Witness ==
    /\ pc = "done"
    /\ \E k \in 1..Len(placements) :
          /\ placements[k].yearConnector # Nil
          /\ LET c == placements[k].yearConnector[1]
                 p == c.params
             IN /\ p.LineIsVisible
                /\ ~p.Style.Dot.StopAtDot
                /\ p.Style.Dot.OffsetMain = 40
                /\ p.Style.Dot.OffsetCross = 5
                /\ p.ElementCrossOffset = 10
                /\ AxisPoint(p.X1, p.Y1) = placements[k].yearCenter
                /\ AxisPoint(p.X2, p.Y2) = placements[k].markerCenter
                /\ DotPosition(p) \notin {placements[k].yearCenter, placements[k].markerCenter}
                /\ Len(SegmentsOf(c)) = 1
                /\ \E e \in {c.written[n] : n \in 1..Len(c.written)} : e.of = "dot"

(***************************************************************************)
(* C26: axis anchors, axis segments and junction points.                   *)
(***************************************************************************)
\* the <line> elements of the axis in the body
AxisLines == SelectSeq(svgBody, LAMBDA e : e.kind = "line" /\ e.of = "axis")

\* N axis anchors, N axis segments drawn, N + 1 junction points
AxisCounts ==
    /\ Len(entryAxisPoints) = Len(entries)
    /\ Len(svgSegments) = Len(entries)
    /\ Len(AxisLines) = Len(entries)
    /\ Len(timelineData.junctionPoints) = Len(entries) + 1
    /\ Len(timelineData.entryPoints) = Len(entries)

RECURSIVE AxisLengthUpTo(_)
\* the sum of the lengths of the first n axis segments
AxisLengthUpTo(n) ==
    IF n = 0 THEN 0
    ELSE AxisLengthUpTo(n - 1) + Distance(SegmentStart(svgSegments[n]), SegmentEnd(svgSegments[n]))

\* C26: for N >= 1 entries GenerateSVG computes N axis anchors, draws N axis
\* segments and holds N + 1 junction points; the segments are one leading
\* segment and one segment after each entry (it starts at the anchor of the
\* entry), and together they span all N + 1 junction points: from the first
\* junction point to the last.
C26_SegmentsSpanJunctions ==
    (pc = "done" /\ entries # <<>>) =>
        /\ AxisCounts
        /\ \A k \in EntryIndexes :
              \E n \in 1..Len(svgSegments) :
                  SegmentStart(svgSegments[n]) = At(entryAxisPoints, k)
                  /\ SegmentEnd(svgSegments[n]) # At(entryAxisPoints, k)
        /\ AxisLengthUpTo(Len(svgSegments)) =
               At(timelineData.junctionPoints, Len(entries)) - At(timelineData.junctionPoints, 0)

\* what GenerateSVG draws: the counts are as claimed; the first segment has
\* length 0 at the first anchor, the segment of entry k >= 1 runs from the
\* anchor of entry k-1 to the anchor of entry k, and the segments together
\* reach junction point N-1: nothing is drawn after the last anchor
C26_SegmentsEndAtLastAnchor ==
    (pc = "done" /\ entries # <<>>) =>
        /\ AxisCounts
        /\ SegmentStart(svgSegments[1]) = At(entryAxisPoints, 0)
        /\ SegmentEnd(svgSegments[1]) = At(entryAxisPoints, 0)
        /\ \A k \in EntryIndexes \ {0} :
              /\ SegmentStart(At(svgSegments, k)) = At(entryAxisPoints, k - 1)
              /\ SegmentEnd(At(svgSegments, k)) = At(entryAxisPoints, k)
        /\ AxisLengthUpTo(Len(svgSegments)) =
               At(timelineData.junctionPoints, Len(entries) - 1)
        /\ At(timelineData.junctionPoints, Len(entries))
               > At(timelineData.junctionPoints, Len(entries) - 1)

(***************************************************************************)
(* Inputs for the comment block: both orientations, the title line         *)
(* visible or not with a width and a length that are zero or positive,     *)
(* two padding shorthands, and an entry with every combination of title,   *)
(* body text and image, alone or after an entry without comment.           *)
(***************************************************************************)
CommentBlockTemplates ==
    {[TplFull EXCEPT !.CenterLine.Orientation = o,
                     !.GlobalFont = Ptr(FontGlobalFull),
                     !.PeriodDefaults.CommentText.Padding = pad,
                     !.PeriodDefaults.CommentText.TitleLine =
                         [TitleLineFull EXCEPT !.Visible = v, !.Width = w, !.Length = l]] :
        o \in {"horizontal", "vertical"}, pad \in {"8", "5 10 15 20"},
        v \in BOOLEAN, w \in {0, 1}, l \in {0, 30}}

CommentBlockEntries ==
    {[EntryPlain EXCEPT !.TitleText = t, !.CommentText = b, !.CommentImage = img] :
        t \in {"", "TITLE"}, b \in {"", "abc"}, img \in {"", "img1.png"}}

InitCommentBlock ==
    /\ template \in CommentBlockTemplates
    /\ dataJSON \in {<<>>} \cup {<<e>> : e \in CommentBlockEntries}
                     \cup {<<EntryBare, e>> : e \in CommentBlockEntries}
    /\ InitRun

SpecCommentBlock == InitCommentBlock /\ [][Next]_vars

(***************************************************************************)
(* C27: the parts of the comment block from top to bottom.                 *)
(***************************************************************************)
\* the CommentParams of the n-th placed entry
CommentParamsOf(n) == entryCommentParams(ResolvedOf(n), placements[n].commentAnchor[1])

TitleHeightOf(n) ==
    IF CommentParamsOf(n).TitleText = "" THEN 0
    ELSE getEstimatedHeight(CommentParamsOf(n).Style.TitleFont)

\* the title rule is visible with a positive width and length
RuleIsVisible(n) ==
    /\ CommentParamsOf(n).Style.TitleLine.Visible
    /\ CommentParamsOf(n).Style.TitleLine.Width > 0
    /\ CommentParamsOf(n).Style.TitleLine.Length > 0

\* margin + rule width + margin when the rule is visible, else nothing
RuleSpaceOf(n) ==
    IF RuleIsVisible(n)
    THEN 2 * CommentParamsOf(n).Style.TitleLine.Margin + CommentParamsOf(n).Style.TitleLine.Width
    ELSE 0

BodyHeightOf(n) ==
    IF CommentParamsOf(n).BodyText = "" /\ CommentParamsOf(n).ImageURL = "" THEN 0
    ELSE CommentLayoutOf(n).foHeight

\* the stack inside the padding: title, rule between its margins, body
StackedTopToBottom(n) ==
    /\ CommentParamsOf(n).TitleText # "" =>
          CommentLayoutOf(n).titleTextAbsY = CommentLayoutOf(n).blockY + CommentLayoutOf(n).padTop
    /\ RuleIsVisible(n) =>
          CommentLayoutOf(n).titleLineAbsY =
              CommentLayoutOf(n).blockY + CommentLayoutOf(n).padTop + TitleHeightOf(n)
              + CommentParamsOf(n).Style.TitleLine.Margin
    /\ CommentLayoutOf(n).bodyAbsY =
           CommentLayoutOf(n).blockY + CommentLayoutOf(n).padTop + TitleHeightOf(n) + RuleSpaceOf(n)
    /\ CommentLayoutOf(n).visualBlockHeight =
           CommentLayoutOf(n).padTop + TitleHeightOf(n) + RuleSpaceOf(n) + BodyHeightOf(n)
           + CommentLayoutOf(n).padBottom
    /\ CommentLayoutOf(n).foHeight = 0 <=>
           (CommentParamsOf(n).BodyText = "" /\ CommentParamsOf(n).ImageURL = "")

\* the parts that drawComment writes are where the layout has them
DrawnWhereLaidOut(n) ==
    /\ \A k \in 1..Len(WrittenOf(n, "commentTitle")) :
          WrittenOf(n, "commentTitle")[k].y = CommentLayoutOf(n).titleTextAbsY
    /\ \A k \in 1..Len(WrittenOf(n, "titleLine")) :
          WrittenOf(n, "titleLine")[k].y1 = CommentLayoutOf(n).titleLineAbsY
    /\ \A k \in 1..Len(WrittenOf(n, "commentBody")) :
          /\ WrittenOf(n, "commentBody")[k].y = CommentLayoutOf(n).bodyAbsY
          /\ WrittenOf(n, "commentBody")[k].height = BodyHeightOf(n)

RuleIsDrawn(n) == WrittenOf(n, "titleLine") # <<>>

\* C27: the title text starts at blockY + padTop, the title rule (only when
\* visible with positive width and length) lies one margin below the title
\* and is followed by one margin, the body starts directly after; the block
\* height is padTop + title height + (margin + rule width + margin, if the
\* rule is present) + body height + padBottom, with title height 0 without
\* a title and body height 0 without text and image; and the layout
\* reserves the space of the rule exactly when drawComment draws the rule.
C27_StackMatchesDrawing ==
    \A n \in 1..Len(placements) :
        placements[n].hasComment =>
            /\ StackedTopToBottom(n)
            /\ DrawnWhereLaidOut(n)
            /\ RuleIsVisible(n) <=> RuleIsDrawn(n)

\* the stack as the layout computes it, and when the rule is drawn: only
\* under a title, although its space is reserved without one
C27_StackAndRuleUnderTitleOnly ==
    \A n \in 1..Len(placements) :
        placements[n].hasComment =>
            /\ StackedTopToBottom(n)
            /\ DrawnWhereLaidOut(n)
            /\ RuleIsDrawn(n) <=> (RuleIsVisible(n) /\ CommentParamsOf(n).TitleText # "")

(***************************************************************************)
(* C28: generateHTML on a validated template.                              *)
(***************************************************************************)
\* main has passed its validation and called generateHTML
GenerateHTMLInvoked == mainRun # Nil /\ mainRun[1].invoked = "generateHTML"

\* the fonts of the document are the effective fonts: the body's from the
\* global font, the elements' from the entry, the template and the global font
HTMLFontsResolved(doc) ==
    /\ doc.bodyFont = getEffectiveFontStyle(Nil, template.GlobalFont[1], Nil)
    /\ \A k \in 1..Len(doc.elements) :
          /\ doc.elements[k].font.FontFamily # ""
          /\ doc.elements[k].font.FontSize # 0
          /\ doc.elements[k].kind = "year-text" =>
                doc.elements[k].font =
                    getEffectiveFontStyle(template.GlobalFont,
                                          template.PeriodDefaults.YearText.Font, Nil)

\* C28: generateHTML never fails on a template that passed main's
\* validation, with or without the optional global_font: it returns an
\* HTML document and a nil error, and main writes the document when the
\* output can be written.
C28_GenerateHTMLNeverFails ==
    GenerateHTMLInvoked =>
        /\ mainRun[1].panic = ""
        /\ pc # "panic"
        /\ generateHTML(template, entries).err = ""
        /\ generateHTML(template, entries).html # Nil
        /\ mainRun[1].writable => (pc = "exit" /\ mainRun[1].html # Nil)

\* what generateHTML does: it panics exactly when the template has no
\* global_font, and returns the document with the effective fonts and a nil
\* error otherwise
C28_PanicsWithoutGlobalFont ==
    GenerateHTMLInvoked =>
        /\ generateHTML(template, entries).err = ""
        /\ IF template.GlobalFont = Nil
           THEN /\ pc = "panic"
                /\ mainRun[1].panic # ""
                /\ ~mainRun[1].written
                /\ mainRun[1].html = Nil
           ELSE /\ mainRun[1].panic = ""
                /\ HTMLFontsResolved(generateHTML(template, entries).html[1])
                /\ Len(generateHTML(template, entries).html[1].elements) >= Len(entries)
                /\ mainRun[1].writable => (pc = "exit" /\ mainRun[1].written
                                           /\ mainRun[1].html = generateHTML(template, entries).html)

(***************************************************************************)
(* C29: the output file of a run that fails after creating it.             *)
(***************************************************************************)
\* the run has ended in a generation or write error with its output file
\* created
FailedAfterCreate ==
    /\ mainRun # Nil
    /\ pc = "fatal"
    /\ mainRun[1].outputFile # ""
    /\ mainRun[1].outputCreated
    /\ mainRun[1].invoked # ""

\* C29: in a run of main with -o, when the generation or the write fails
\* after the output file was created, the file is closed and removed
\* before the process exits: a failed run leaves no output file behind.
C29_FailedRunRemovesFile ==
    FailedAfterCreate =>
        /\ mainRun[1].outputClosed
        /\ mainRun[1].outputRemoved

\* what main does: the fatal error ends the process, the output file is
\* neither closed by the program nor removed; it is closed, and stays, when
\* main returns or panics
C29_FailedRunLeavesFile ==
    (mainRun # Nil /\ mainRun[1].outputCreated) =>
        /\ ~mainRun[1].outputRemoved
        /\ pc = "fatal" => ~mainRun[1].outputClosed
        /\ pc \in {"exit", "panic"} => mainRun[1].outputClosed
        /\ FailedAfterCreate => ~mainRun[1].written

(***************************************************************************)
(* C30: the connector of an element whose draw flag is false.              *)
(***************************************************************************)
\* what was written for a connector: nothing when drawConnector was not called
ConnectorWritten(c) == IF c = Nil THEN <<>> ELSE c[1].written

\* the dot of the connector style is one that drawConnectorDot draws
DotIsDrawable(style) ==
    style.Dot.Visible /\ style.Dot.Shape # "none" /\ style.Dot.Size > 0

\* C30: when the resolved draw flag of an element is false, nothing of its
\* connector is emitted, neither line segments nor the dot: draw_to_period
\* = false for the connector of the label, draw_to_comment = false for the
\* connector of the comment, for every dot style.
C30_NothingOfConnectorWithoutFlag ==
    \A n \in 1..Len(placements) :
        /\ ~ThreeWayFlag(n - 1, "DrawToPeriod") =>
              ConnectorWritten(placements[n].yearConnector) = <<>>
        /\ (placements[n].hasComment /\ ~ThreeWayFlag(n - 1, "DrawToComment")) =>
              ConnectorWritten(placements[n].commentConnector) = <<>>

\* what drawTimelineEntry does: without draw_to_period the connector of the
\* label is not drawn at all; without draw_to_comment drawConnector is still
\* called for the comment, writes no line, and writes the dot whenever the
\* dot style is drawable
C30_CommentDotDespiteFlag ==
    \A n \in 1..Len(placements) :
        /\ ~ThreeWayFlag(n - 1, "DrawToPeriod") => placements[n].yearConnector = Nil
        /\ (placements[n].hasComment /\ ~ThreeWayFlag(n - 1, "DrawToComment")) =>
              /\ placements[n].commentConnector # Nil
              /\ ~LineDrawn(placements[n].commentConnector)
              /\ IF DotIsDrawable(placements[n].commentConnector[1].params.Style)
                 THEN /\ Len(ConnectorWritten(placements[n].commentConnector)) = 1
                      /\ ConnectorWritten(placements[n].commentConnector)[1].of = "dot"
                 ELSE ConnectorWritten(placements[n].commentConnector) = <<>>

====
